---- MODULE Spec2Model ----
(***************************************************************************)
(* Biome coaching backend: the batch form-analysis path.                   *)
(*                                                                         *)
(*   extract_pose_landmarks  (tools/extract_pose_landmarks.py)             *)
(*     reads the frames of a session's video, keeps the joint angles of    *)
(*     every frame with a detected body and aggregates them to min / max   *)
(*     / avg metrics;                                                      *)
(*   analyze_workout_form    (tools/analyze_workout_form.py)               *)
(*     scores the metrics and lists the form issues, with the squat        *)
(*     policy or the generic policy.                                       *)
(*                                                                         *)
(* Numbers.  Angles are fixed-point: one degree is Scale units, so that    *)
(* the mean of up to MaxVideoFrames whole-degree readings and the mean of  *)
(* two such means are exact.  Penalties and unrounded scores are in units  *)
(* of 1/Point of a score point; returned scores are in tenths (100 is      *)
(* 10.0), confidences in hundredths.                                       *)
(***************************************************************************)
EXTENDS Integers, Sequences, FiniteSets, TLC

\* ---------------------------------------------------------------- bounds
\* A request differs from one of the BaseRequests in at most this many fields.
MaxVaried == 1
\* The largest total_frames a request carries.
MaxTotalFrames == 10
\* The longest video the extraction reads.
MaxVideoFrames == 4
\* The most frames of a live stream whose angle vector reaches the smoother.
MaxSmoothed == 3

\* ------------------------------------------------------------ arithmetic
RECURSIVE Gcd(_, _)
Gcd(a, b) == IF b = 0 THEN a ELSE Gcd(b, a % b)

Lcm(a, b) == (a * b) \div Gcd(a, b)

RECURSIVE LcmUpTo(_)
LcmUpTo(n) == IF n <= 1 THEN 1 ELSE Lcm(n, LcmUpTo(n - 1))

\* Units per degree.
Scale == 2 * LcmUpTo(MaxVideoFrames)

\* d whole degrees, in units.
Deg(d) == d * Scale

\* Units per score point, and per tenth of a score point.
Point == 40 * Scale

Tenth == 4 * Scale

\* x / divisor * (tenths / 10) score points, for an angle difference x in
\* units; exact for every divisor and factor the scorers use.
Pen(x, divisor, tenths) == (x * 40 * tenths) \div (divisor * 10)

\* p tenths of a score point, in units.
Tenths(t) == t * Tenth

Abs(x) == IF x < 0 THEN 0 - x ELSE x

Min2(a, b) == IF a < b THEN a ELSE b

Max2(a, b) == IF a > b THEN a ELSE b

RECURSIVE SumSeq(_)
SumSeq(s) == IF s = <<>> THEN 0 ELSE Head(s) + SumSeq(Tail(s))

\* int(total_frames * num/den): Python truncates, and for the fractions the
\* code uses (0.1, 0.2, 0.25, 0.75, 0.8, 0.9) and a count >= 0 the double
\* product truncates to the exact floor.
IntFrac(n, num, den) == (n * num) \div den

\* ------------------------------------------------------------- constants
\* biomechanics_standards.py, SquatStandards (degrees; penalties in tenths of
\* a point; confidences in hundredths).
GOOD_DEPTH_MAX_ANGLE == 95

OPTIMAL_DEPTH_ANGLE == 90

INSUFFICIENT_DEPTH_THRESHOLD == 110

SEVERE_DEPTH_THRESHOLD == 120

EXCESSIVE_DEPTH_MIN == 70

MAX_KNEE_ASYMMETRY_WARNING == 15

MIN_HIP_ANGLE_TARGET == 150

DEPTH_PENALTY_MAX == 30

ASYMMETRY_PENALTY_MAX == 20

FORWARD_LEAN_PENALTY_MAX == 20

EXCESSIVE_DEPTH_PENALTY_MAX == 15

DEPTH_ISSUE_CONFIDENCE == 85

PERFECT_SCORE == 10

\* dict.get defaults of the angle metrics.
DefaultHigh == 180

DefaultLow == 0

\* ------------------------------------------------------------------ data
\* An absent dictionary key (no angle, count or score is negative).
Missing == -1

MetricKeys ==
    { "left_knee_avg", "left_knee_min", "left_knee_max",
      "right_knee_avg", "right_knee_min", "right_knee_max",
      "left_hip_avg", "left_hip_min", "left_hip_max",
      "right_hip_avg", "right_hip_min", "right_hip_max" }

\* metrics.get(key, default), the default in whole degrees.
Get(metrics, key, default) ==
    IF metrics[key] = Missing THEN Deg(default) ELSE metrics[key]

\* `not metrics`: the dictionary has no key at all.
IsEmptyMetrics(metrics) == \A k \in DOMAIN metrics : metrics[k] = Missing

\* --------------------------------------------------------------- scoring
\* max(0.0, score - sum(penalties)), in units.
FinalScore(penalties) == Max2(0, PERFECT_SCORE * Point - SumSeq(penalties))

\* round(final_score, 1), in tenths.  A value half-way between two tenths
\* (x.x5) is in general not a binary double, and the double the code has
\* computed lies on either side of it: both neighbours are possible results.
Round1(x) ==
    LET q == x \div Tenth
        r == x % Tenth
    IN  IF 2 * r < Tenth THEN {q}
        ELSE IF 2 * r > Tenth THEN {q + 1}
        ELSE {q, q + 1}

\* The depth penalty with its operands swapped: (optimal - min_knee) / 20.
SquatDepthPenaltySwapped(min_knee_angle) ==
    IF min_knee_angle > Deg(INSUFFICIENT_DEPTH_THRESHOLD)
    THEN << Min2(Pen(Deg(OPTIMAL_DEPTH_ANGLE) - min_knee_angle, 20, 10),
                 Tenths(DEPTH_PENALTY_MAX)) >>
    ELSE IF min_knee_angle < Deg(EXCESSIVE_DEPTH_MIN)
    THEN << Min2(Pen(Deg(EXCESSIVE_DEPTH_MIN) - min_knee_angle, 10, 10),
                 Tenths(EXCESSIVE_DEPTH_PENALTY_MAX)) >>
    ELSE << >>

\* _calculate_squat_score, the depth check: the penalties it appends.
SquatDepthPenalty(min_knee_angle) ==
    IF min_knee_angle > Deg(INSUFFICIENT_DEPTH_THRESHOLD)
    THEN << Min2(Pen(min_knee_angle - Deg(OPTIMAL_DEPTH_ANGLE), 20, 10),
                 Tenths(DEPTH_PENALTY_MAX)) >>
    ELSE IF min_knee_angle < Deg(EXCESSIVE_DEPTH_MIN)
    THEN << Min2(Pen(Deg(EXCESSIVE_DEPTH_MIN) - min_knee_angle, 10, 10),
                 Tenths(EXCESSIVE_DEPTH_PENALTY_MAX)) >>
    ELSE << >>

\* The asymmetry penalty falling with the asymmetry: 1.5 * warning / asymmetry.
SquatAsymmetryPenaltyInverted(asymmetry) ==
    IF asymmetry > Deg(MAX_KNEE_ASYMMETRY_WARNING)
    THEN << Min2((Deg(MAX_KNEE_ASYMMETRY_WARNING) * 60 * Scale) \div asymmetry,
                 Tenths(ASYMMETRY_PENALTY_MAX)) >>
    ELSE << >>

\* _calculate_squat_score, the knee alignment check.
SquatAsymmetryPenalty(asymmetry) ==
    IF asymmetry > Deg(MAX_KNEE_ASYMMETRY_WARNING)
    THEN << Min2(Pen(asymmetry, MAX_KNEE_ASYMMETRY_WARNING, 15),
                 Tenths(ASYMMETRY_PENALTY_MAX)) >>
    ELSE << >>

\* The hip hinge check against the warning angle of the issue list (145)
\* in place of MIN_HIP_ANGLE_TARGET.
SquatLeanPenaltyAtWarning(avg_hip) ==
    IF avg_hip < Deg(145)
    THEN << Min2(Pen(Deg(145) - avg_hip, 20, 10),
                 Tenths(FORWARD_LEAN_PENALTY_MAX)) >>
    ELSE << >>

\* _calculate_squat_score, the hip hinge check.
SquatLeanPenalty(avg_hip) ==
    IF avg_hip < Deg(MIN_HIP_ANGLE_TARGET)
    THEN << Min2(Pen(Deg(MIN_HIP_ANGLE_TARGET) - avg_hip, 20, 10),
                 Tenths(FORWARD_LEAN_PENALTY_MAX)) >>
    ELSE << >>

\* min(left_knee_min, right_knee_min), as every squat function computes it.
MinKneeAngle(metrics) ==
    Min2(Get(metrics, "left_knee_min", DefaultHigh),
         Get(metrics, "right_knee_min", DefaultHigh))

\* abs(left_knee_avg - right_knee_avg).
KneeAsymmetry(metrics) ==
    Abs(Get(metrics, "left_knee_avg", DefaultHigh)
        - Get(metrics, "right_knee_avg", DefaultHigh))

\* (left_hip_avg + right_hip_avg) / 2.
AvgHip(metrics) ==
    (Get(metrics, "left_hip_avg", DefaultHigh)
     + Get(metrics, "right_hip_avg", DefaultHigh)) \div 2

\* The list `penalties` of _calculate_squat_score.
SquatPenalties(metrics) ==
    SquatDepthPenalty(MinKneeAngle(metrics))
    \o SquatAsymmetryPenalty(KneeAsymmetry(metrics))
    \o SquatLeanPenalty(AvgHip(metrics))

\* _calculate_squat_score: the scores it can return, in tenths.
calculate_squat_score(metrics) == Round1(FinalScore(SquatPenalties(metrics)))

\* One entry of the issue list (the coaching cue, a text that repeats the
\* measured value, is left out).
Issue(type, severity, frame_start, frame_end, confidence) ==
    [ issue_type |-> type, severity |-> severity,
      frame_start |-> frame_start, frame_end |-> frame_end,
      confidence_score |-> confidence ]

\* Issue 1 with the two severities the wrong way round.
SquatDepthIssueSwapped(metrics, total_frames) ==
    LET min_knee_angle == MinKneeAngle(metrics)
    IN  IF min_knee_angle > Deg(GOOD_DEPTH_MAX_ANGLE)
        THEN << Issue("Insufficient Squat Depth",
                      IF min_knee_angle > Deg(SEVERE_DEPTH_THRESHOLD)
                      THEN "moderate" ELSE "severe",
                      IntFrac(total_frames, 2, 10),
                      IntFrac(total_frames, 8, 10),
                      DEPTH_ISSUE_CONFIDENCE) >>
        ELSE << >>

\* _identify_squat_issues, issue 1.
SquatDepthIssue(metrics, total_frames) ==
    LET min_knee_angle == MinKneeAngle(metrics)
    IN  IF min_knee_angle > Deg(GOOD_DEPTH_MAX_ANGLE)
        THEN << Issue("Insufficient Squat Depth",
                      IF min_knee_angle > Deg(SEVERE_DEPTH_THRESHOLD)
                      THEN "severe" ELSE "moderate",
                      IntFrac(total_frames, 2, 10),
                      IntFrac(total_frames, 8, 10),
                      DEPTH_ISSUE_CONFIDENCE) >>
        ELSE << >>

\* _identify_squat_issues, issue 2.
SquatAsymmetryIssue(metrics, total_frames) ==
    LET asymmetry == KneeAsymmetry(metrics)
    IN  IF asymmetry > Deg(15)
        THEN << Issue("Knee Asymmetry/Valgus",
                      IF asymmetry > Deg(25) THEN "severe" ELSE "moderate",
                      IntFrac(total_frames, 25, 100),
                      IntFrac(total_frames, 75, 100),
                      75) >>
        ELSE << >>

\* _identify_squat_issues, issue 3.
SquatLeanIssue(metrics, total_frames) ==
    LET avg_hip == AvgHip(metrics)
    IN  IF avg_hip < Deg(145)
        THEN << Issue("Excessive Forward Lean",
                      IF avg_hip < Deg(135) THEN "severe" ELSE "moderate",
                      IntFrac(total_frames, 1, 10),
                      IntFrac(total_frames, 9, 10),
                      70) >>
        ELSE << >>

identify_squat_issues(metrics, total_frames) ==
    SquatDepthIssue(metrics, total_frames)
    \o SquatAsymmetryIssue(metrics, total_frames)
    \o SquatLeanIssue(metrics, total_frames)

\* ------------------------------------------------------- generic policy
\* abs(left_hip_avg - right_hip_avg).
HipAsymmetry(metrics) ==
    Abs(Get(metrics, "left_hip_avg", DefaultHigh)
        - Get(metrics, "right_hip_avg", DefaultHigh))

\* abs(left_knee_max - left_knee_min).
KneeRange(metrics) ==
    Abs(Get(metrics, "left_knee_max", DefaultHigh)
        - Get(metrics, "left_knee_min", DefaultLow))

\* max(left_hip_max, right_hip_max) - min(left_hip_min, right_hip_min).
HipVariance(metrics) ==
    Max2(Get(metrics, "left_hip_max", DefaultHigh),
         Get(metrics, "right_hip_max", DefaultHigh))
    - Min2(Get(metrics, "left_hip_min", DefaultLow),
           Get(metrics, "right_hip_min", DefaultLow))

\* _calculate_generic_score, the knee symmetry check.
GenericKneePenalty(knee_asymmetry) ==
    IF knee_asymmetry > Deg(15)
    THEN << Min2(Pen(knee_asymmetry - Deg(15), 10, 20), Tenths(25)) >>
    ELSE << >>

\* _calculate_generic_score, the hip symmetry check.
GenericHipPenalty(hip_asymmetry) ==
    IF hip_asymmetry > Deg(10)
    THEN << Min2(Pen(hip_asymmetry - Deg(10), 10, 15), Tenths(20)) >>
    ELSE << >>

\* _calculate_generic_score, the range of motion check.
GenericRangePenalty(knee_range) ==
    IF knee_range < Deg(20) THEN << Tenths(15) >>
    ELSE IF knee_range < Deg(40) THEN << Tenths(5) >>
    ELSE << >>

\* The core stability check without its cap of 1.5.
GenericStabilityPenaltyUncapped(hip_variance) ==
    IF hip_variance > Deg(25)
    THEN << Pen(hip_variance - Deg(25), 20, 10) >>
    ELSE << >>

\* _calculate_generic_score, the core stability check.
GenericStabilityPenalty(hip_variance) ==
    IF hip_variance > Deg(25)
    THEN << Min2(Pen(hip_variance - Deg(25), 20, 10), Tenths(15)) >>
    ELSE << >>

\* The list `penalties` of _calculate_generic_score.
GenericPenalties(metrics) ==
    GenericKneePenalty(KneeAsymmetry(metrics))
    \o GenericHipPenalty(HipAsymmetry(metrics))
    \o GenericRangePenalty(KneeRange(metrics))
    \o GenericStabilityPenalty(HipVariance(metrics))

\* _calculate_generic_score: the scores it can return, in tenths (the base
\* score is the literal 10.0, equal to PERFECT_SCORE).
calculate_generic_score(metrics) == Round1(FinalScore(GenericPenalties(metrics)))

\* Issue 1 with the severe threshold of the stability issue (35).
GenericAsymmetryIssueAt35(metrics, total_frames) ==
    LET max_asymmetry == Max2(KneeAsymmetry(metrics), HipAsymmetry(metrics))
    IN  IF max_asymmetry > Deg(15)
        THEN << Issue("Asymmetric Movement Pattern",
                      IF max_asymmetry > Deg(35) THEN "severe" ELSE "moderate",
                      IntFrac(total_frames, 2, 10),
                      IntFrac(total_frames, 8, 10),
                      80) >>
        ELSE << >>

\* _identify_generic_issues, issue 1.
GenericAsymmetryIssue(metrics, total_frames) ==
    LET max_asymmetry == Max2(KneeAsymmetry(metrics), HipAsymmetry(metrics))
    IN  IF max_asymmetry > Deg(15)
        THEN << Issue("Asymmetric Movement Pattern",
                      IF max_asymmetry > Deg(25) THEN "severe" ELSE "moderate",
                      IntFrac(total_frames, 2, 10),
                      IntFrac(total_frames, 8, 10),
                      80) >>
        ELSE << >>

\* _identify_generic_issues, issue 2.
GenericRangeIssue(metrics, total_frames) ==
    LET knee_range == KneeRange(metrics)
    IN  IF knee_range < Deg(40)
        THEN << Issue("Limited Range of Motion",
                      IF knee_range < Deg(20) THEN "moderate" ELSE "minor",
                      0,
                      total_frames - 1,
                      75) >>
        ELSE << >>

\* Issue 3 without its second threshold: always "minor".
GenericStabilityIssueFlat(metrics, total_frames) ==
    LET hip_variance == HipVariance(metrics)
    IN  IF hip_variance > Deg(25)
        THEN << Issue("Core Stability Issue",
                      "minor",
                      IntFrac(total_frames, 25, 100),
                      IntFrac(total_frames, 75, 100),
                      70) >>
        ELSE << >>

\* _identify_generic_issues, issue 3.
GenericStabilityIssue(metrics, total_frames) ==
    LET hip_variance == HipVariance(metrics)
    IN  IF hip_variance > Deg(25)
        THEN << Issue("Core Stability Issue",
                      IF hip_variance > Deg(35) THEN "moderate" ELSE "minor",
                      IntFrac(total_frames, 25, 100),
                      IntFrac(total_frames, 75, 100),
                      70) >>
        ELSE << >>

identify_generic_issues(metrics, total_frames) ==
    GenericAsymmetryIssue(metrics, total_frames)
    \o GenericRangeIssue(metrics, total_frames)
    \o GenericStabilityIssue(metrics, total_frames)

\* ------------------------------------------- metrics, strengths, advice
\* One entry of the metric comparison list (the formatted actual value and
\* the fixed target text are left out).
Metric(name, status) == [ metric_name |-> name, status |-> status ]

\* _generate_metrics.
generate_metrics(metrics) ==
    LET min_knee == MinKneeAngle(metrics)
        asymmetry == KneeAsymmetry(metrics)
        avg_hip == AvgHip(metrics)
    IN  << Metric("Knee Flexion (Depth)",
                  IF min_knee < Deg(95) THEN "good"
                  ELSE IF min_knee < Deg(110) THEN "warning" ELSE "error"),
           Metric("Knee Symmetry",
                  IF asymmetry < Deg(10) THEN "good"
                  ELSE IF asymmetry < Deg(20) THEN "warning" ELSE "error"),
           Metric("Hip Angle (Torso Position)",
                  IF avg_hip > Deg(155) THEN "good"
                  ELSE IF avg_hip > Deg(145) THEN "warning" ELSE "error") >>

\* _generate_generic_metrics.
generate_generic_metrics(metrics) ==
    LET max_asymmetry == Max2(KneeAsymmetry(metrics), HipAsymmetry(metrics))
        knee_range == KneeRange(metrics)
        hip_variance == HipVariance(metrics)
    IN  << Metric("Movement Symmetry",
                  IF max_asymmetry < Deg(10) THEN "good"
                  ELSE IF max_asymmetry < Deg(20) THEN "warning" ELSE "error"),
           Metric("Range of Motion",
                  IF knee_range > Deg(50) THEN "good"
                  ELSE IF knee_range > Deg(30) THEN "warning" ELSE "error"),
           Metric("Core Stability",
                  IF hip_variance < Deg(20) THEN "good"
                  ELSE IF hip_variance < Deg(30) THEN "warning" ELSE "error") >>

\* The message each policy adds when the issue list is empty.
OutstandingSquat == "Outstanding form! Keep up the excellent technique."

OutstandingGeneric ==
    "Outstanding {exercise_name} form! Keep up the excellent technique."

\* The last strength appended under the wrong test: `if not strengths`.
PerfectFormStrengthIfNone(strengths, issues, message) ==
    IF strengths = << >> THEN Append(strengths, message) ELSE strengths

\* `if not issues: strengths.append(...)` of both strength generators.
PerfectFormStrength(strengths, issues, message) ==
    IF issues = << >> THEN Append(strengths, message) ELSE strengths

\* `if not strengths: strengths.append(...)`.
AtLeastOneStrength(strengths, message) ==
    IF strengths = << >> THEN << message >> ELSE strengths

\* _generate_strengths.
generate_strengths(metrics, issues) ==
    LET s1 == IF MinKneeAngle(metrics) < Deg(95)
              THEN << "Excellent squat depth! You're achieving proper range of motion." >>
              ELSE << >>
        s2 == IF KneeAsymmetry(metrics) < Deg(10)
              THEN Append(s1, "Great knee alignment and symmetry throughout the movement.")
              ELSE s1
        s3 == PerfectFormStrength(s2, issues, OutstandingSquat)
    IN  AtLeastOneStrength(s3, "Good effort! Focus on the cues below to improve your form.")

\* _generate_generic_strengths.
generate_generic_strengths(metrics, issues) ==
    LET hip_variance == Abs(Get(metrics, "left_hip_max", DefaultHigh)
                            - Get(metrics, "left_hip_min", DefaultLow))
        s1 == IF KneeAsymmetry(metrics) < Deg(10) /\ HipAsymmetry(metrics) < Deg(8)
              THEN << "Excellent bilateral symmetry!" >>
              ELSE << >>
        s2 == IF KneeRange(metrics) > Deg(60)
              THEN Append(s1, "Great range of motion!")
              ELSE s1
        s3 == IF hip_variance < Deg(15)
              THEN Append(s2, "Solid core stability!")
              ELSE s2
        s4 == IF issues # << >>
                 /\ \A i \in 1..Len(issues) : issues[i].severity # "severe"
              THEN Append(s3, "No severe form issues detected.")
              ELSE s3
        s5 == PerfectFormStrength(s4, issues, OutstandingGeneric)
    IN  AtLeastOneStrength(s5, "Good effort on your {exercise_name}!")

\* One entry of the recommendation list.
Recommendation(text, priority) ==
    [ recommendation_text |-> text, priority |-> priority ]

\* any(t in issue["issue_type"] for issue in issues), for the words the
\* recommendation generators look for.
HasIssueOf(issues, types) ==
    \E i \in 1..Len(issues) : issues[i].issue_type \in types

\* The issue types that contain each word the generators test.
TypesWithDepth == { "Insufficient Squat Depth" }

TypesWithValgusOrAsymmetry == { "Knee Asymmetry/Valgus" }

TypesWithAsymmetryOrAsymmetric ==
    { "Knee Asymmetry/Valgus", "Asymmetric Movement Pattern" }

TypesWithRangeOfMotion == { "Limited Range of Motion" }

TypesWithStability == { "Core Stability Issue" }

\* The sequence s with e appended when the condition holds.
AppendIf(s, cond, e) == IF cond THEN Append(s, e) ELSE s

\* _generate_recommendations (overall_score in tenths).
generate_recommendations(issues, overall_score) ==
    LET r1 == AppendIf(<< >>, overall_score < 60,
                       Recommendation("Practice bodyweight squats", 1))
        r2 == AppendIf(r1, HasIssueOf(issues, TypesWithDepth),
                       Recommendation("Work on hip mobility and ankle flexibility", 2))
        r3 == AppendIf(r2, HasIssueOf(issues, TypesWithValgusOrAsymmetry),
                       Recommendation("Strengthen your glutes and hip abductors", 2))
    IN  AppendIf(r3, overall_score >= 80,
                 Recommendation("Your form is solid!", 3))

\* _generate_generic_recommendations (overall_score in tenths).
generate_generic_recommendations(issues, overall_score) ==
    LET r1 == AppendIf(<< >>, overall_score < 60,
                       Recommendation("Focus on mastering the basics", 1))
        r2 == AppendIf(r1, HasIssueOf(issues, TypesWithAsymmetryOrAsymmetric),
                       Recommendation("Address the left-right imbalance", 2))
        r3 == AppendIf(r2, HasIssueOf(issues, TypesWithRangeOfMotion),
                       Recommendation("Improve your mobility", 2))
        r4 == AppendIf(r3, HasIssueOf(issues, TypesWithStability),
                       Recommendation("Strengthen your core", 2))
        r5 == AppendIf(r4, overall_score >= 80,
                       Recommendation("Your {exercise_name} form is solid!", 3))
    IN  IF r5 = << >>
        THEN << Recommendation("Keep practicing {exercise_name}", 3) >>
        ELSE r5

\* -------------------------------------------------- analyze_workout_form
ExerciseNames == { "Squat", "squats", "SQUATS", "Deadlift" }

\* A case-sensitive comparison of the name, in place of str.lower.
LowerCaseSensitive(name) == name

\* str.lower on the exercise names of the model.
Lower(name) ==
    CASE name = "Squat" -> "squat"
      [] name = "squats" -> "squats"
      [] name = "SQUATS" -> "squats"
      [] name = "Deadlift" -> "deadlift"

\* The error dictionary {status, error_type, message}.
ErrorResult(error_type) ==
    [ keys |-> { "status", "error_type", "message" },
      status |-> "error", error_type |-> error_type,
      overall_score |-> Missing, total_frames |-> Missing,
      issues |-> << >>, metrics |-> << >>,
      strengths |-> << >>, recommendations |-> << >> ]

\* The success dictionary.
SuccessResult(overall_score, total_frames, issues, metrics_list, strengths, recommendations) ==
    [ keys |-> { "status", "overall_score", "total_frames", "issues",
                 "metrics", "strengths", "recommendations" },
      status |-> "success", error_type |-> "",
      overall_score |-> overall_score, total_frames |-> total_frames,
      issues |-> issues, metrics |-> metrics_list,
      strengths |-> strengths, recommendations |-> recommendations ]

\* pose_data.get("total_frames", 0).
TotalFramesOf(pose_data) ==
    IF pose_data.total_frames = Missing THEN 0 ELSE pose_data.total_frames

\* The squat branch of analyze_workout_form.
SquatAnalysis(metrics, total_frames) ==
    LET issues == identify_squat_issues(metrics, total_frames)
    IN  { SuccessResult(overall_score, total_frames, issues,
                        generate_metrics(metrics),
                        generate_strengths(metrics, issues),
                        generate_recommendations(issues, overall_score)) :
            overall_score \in calculate_squat_score(metrics) }

\* The generic branch of analyze_workout_form.
GenericAnalysis(metrics, total_frames) ==
    LET issues == identify_generic_issues(metrics, total_frames)
    IN  { SuccessResult(overall_score, total_frames, issues,
                        generate_generic_metrics(metrics),
                        generate_generic_strengths(metrics, issues),
                        generate_generic_recommendations(issues, overall_score)) :
            overall_score \in calculate_generic_score(metrics) }

\* analyze_workout_form: the dictionaries it can return.
analyze_workout_form(pose_data, exercise) ==
    IF pose_data.status # "success" THEN { ErrorResult("validation") }
    ELSE IF IsEmptyMetrics(pose_data.metrics) THEN { ErrorResult("validation") }
    ELSE IF Lower(exercise) \in { "squat", "squats" }
    THEN SquatAnalysis(pose_data.metrics, TotalFramesOf(pose_data))
    ELSE GenericAnalysis(pose_data.metrics, TotalFramesOf(pose_data))

\* ------------------------------------------------ extract_pose_landmarks
AllMetricKeys == MetricKeys \cup { "count" }

NoMetrics == [ k \in AllMetricKeys |-> Missing ]

\* An angle reading is a Python float, a double. The float32 values are the
\* grid of the model's angle units; a double that is not a float32 value is
\* the float32 value nearest to it (f32) and an offset to one side of it
\* (off: -1, 0 or 1) that is smaller than any unit.
Reading(f32, off) == [ f32 |-> f32, off |-> off ]

\* The conversion of np.array(..., dtype=np.float32): the nearest float32.
float32(reading) == reading.f32

\* The joint angles of one frame, in whole degrees: what _calc_joint_angles
\* returns for the landmarks the pose model has found.
Angles(left_knee, right_knee, left_hip, right_hip) ==
    [ left_knee |-> Reading(Deg(left_knee), 0),
      right_knee |-> Reading(Deg(right_knee), 0),
      left_hip |-> Reading(Deg(left_hip), 0),
      right_hip |-> Reading(Deg(right_hip), 0) ]

\* The angles of a frame whose reading of one angle is a double off the
\* float32 grid, as np.degrees(np.arccos(...)) returns.
OffGrid(angles, name, off) == [ angles EXCEPT ![name].off = off ]

\* The poses a frame of the model's videos shows: standing, the bottom of a
\* squat, a half squat.
FramePoses ==
    { Angles(170, 172, 175, 173), Angles(85, 88, 100, 98),
      OffGrid(Angles(125, 120, 140, 150), "left_knee", 1) }

AngleNames == { "left_knee", "right_knee", "left_hip", "right_hip" }

RECURSIVE SeqMin(_)
SeqMin(s) == IF Len(s) = 1 THEN Head(s) ELSE Min2(Head(s), SeqMin(Tail(s)))

RECURSIVE SeqMax(_)
SeqMax(s) == IF Len(s) = 1 THEN Head(s) ELSE Max2(Head(s), SeqMax(Tail(s)))

\* np.mean of the values (exact: Scale is a multiple of every length).
SeqMean(s) == SumSeq(s) \div Len(s)

\* The statistic a metric key holds, over the values of its angle.
Statistic(key, vals) ==
    CASE key \in { "left_knee_avg", "right_knee_avg", "left_hip_avg", "right_hip_avg" }
           -> SeqMean(vals)
      [] key \in { "left_knee_min", "right_knee_min", "left_hip_min", "right_hip_min" }
           -> SeqMin(vals)
      [] OTHER -> SeqMax(vals)

\* The angle a metric key is about.
AngleOf(key) ==
    CASE key \in { "left_knee_avg", "left_knee_min", "left_knee_max" } -> "left_knee"
      [] key \in { "right_knee_avg", "right_knee_min", "right_knee_max" } -> "right_knee"
      [] key \in { "left_hip_avg", "left_hip_min", "left_hip_max" } -> "left_hip"
      [] OTHER -> "right_hip"

\* _aggregate_metrics: the keys come from the first frame, so an empty series
\* yields the count alone. The statistics are those of the readings
\* converted to float32.
aggregate_metrics(angle_series) ==
    [ k \in AllMetricKeys |->
        IF k = "count" THEN Len(angle_series)
        ELSE IF angle_series = << >> THEN Missing
        ELSE Statistic(k, [ i \in 1..Len(angle_series) |->
                              float32(angle_series[i][AngleOf(k)]) ]) ]

\* The dictionary extract_pose_landmarks returns (sample_frames and the
\* message are left out).
PoseData(status, error_type, total_frames, metrics) ==
    [ status |-> status, error_type |-> error_type,
      total_frames |-> total_frames, metrics |-> metrics ]

NoPoseData == PoseData("none", "", Missing, NoMetrics)

NoResult ==
    [ keys |-> {}, status |-> "none", error_type |-> "",
      overall_score |-> Missing, total_frames |-> Missing,
      issues |-> << >>, metrics |-> << >>,
      strengths |-> << >>, recommendations |-> << >> ]

\* The ways extract_pose_landmarks fails before it reads a frame, by the
\* error_type it returns: the session query raises, the session does not
\* exist, the row holds no video path, the video does not open (or MediaPipe
\* does not import).
SetupFailures ==
    { "database", "session_not_found", "ValidationError", "PoseExtractionError" }

\* frame_interval = max(int(round(native_fps / max(fps, 1))), 1).
FrameIntervals == { 1, 2 }

\* ------------------------------------------------------------- requests
\* analyze_workout_form is a tool of the agent, which passes it the pose
\* data: any dictionary, not only one extract_pose_landmarks has returned.
\* The model takes the requests that differ from a base request in at most
\* MaxVaried fields (an angle metric, the count, total_frames).

\* The whole degrees an angle metric of a request takes.
AngleVals ==
    { 0, 60, 70, 75, 85, 95, 100, 106, 111, 116, 121, 125, 135, 140, 150, 165,
      180 }

\* The metrics dictionary with the given keys (angles in whole degrees).
MetricsOf(f) ==
    [ k \in AllMetricKeys |->
        IF k \notin DOMAIN f THEN Missing
        ELSE IF k = "count" THEN f[k] ELSE Deg(f[k]) ]

\* Scenario A of the specification: a squat within every tolerance.
ScenarioA ==
    ( "left_knee_min" :> 85 @@ "right_knee_min" :> 88 @@
      "left_knee_avg" :> 90 @@ "right_knee_avg" :> 91 @@
      "left_hip_avg" :> 160 @@ "right_hip_avg" :> 158 )

\* Every key of an aggregate, within every tolerance of both policies.
FullGood ==
    ( ScenarioA @@
      "left_knee_max" :> 150 @@ "right_knee_max" :> 152 @@
      "left_hip_max" :> 170 @@ "right_hip_max" :> 168 @@
      "left_hip_min" :> 150 @@ "right_hip_min" :> 148 @@
      "count" :> MaxTotalFrames )

\* Scenario B: a squat that stops at a knee angle of 125.
Shallow ==
    ( "left_knee_min" :> 125 @@ "right_knee_min" :> 130 @@ ScenarioA )

\* Every dimension of both policies out of tolerance.
Poor ==
    ( "left_knee_min" :> 130 @@ "right_knee_min" :> 135 @@
      "left_knee_avg" :> 150 @@ "right_knee_avg" :> 120 @@
      "left_hip_avg" :> 120 @@ "right_hip_avg" :> 135 @@
      "left_knee_max" :> 145 @@ "right_knee_max" :> 150 @@
      "left_hip_max" :> 170 @@ "right_hip_max" :> 165 @@
      "left_hip_min" :> 120 @@ "right_hip_min" :> 125 @@
      "count" :> MaxTotalFrames )

\* Every penalty of both policies at its cap.
Worst ==
    ( "left_knee_min" :> 150 @@ "right_knee_min" :> 155 @@
      "left_knee_avg" :> 150 @@ "right_knee_avg" :> 120 @@
      "left_hip_avg" :> 95 @@ "right_hip_avg" :> 120 @@
      "left_knee_max" :> 165 @@ "right_knee_max" :> 165 @@
      "left_hip_max" :> 170 @@ "right_hip_max" :> 165 @@
      "left_hip_min" :> 95 @@ "right_hip_min" :> 100 @@
      "count" :> MaxTotalFrames )

BaseRequests ==
    { PoseData("success", "", MaxTotalFrames, MetricsOf(f)) :
        f \in { ScenarioA, FullGood, Shallow, Poor, Worst,
                "count" :> MaxTotalFrames } }
    \cup { PoseData("success", "", MaxTotalFrames, NoMetrics),
           PoseData("error", "PoseExtractionError", Missing, NoMetrics) }

RequestFields == AllMetricKeys \cup { "total_frames" }

FieldValues(field) ==
    IF field = "total_frames" THEN { Missing } \cup (0..MaxTotalFrames)
    ELSE IF field = "count" THEN { Missing, MaxTotalFrames }
    ELSE { Missing } \cup { Deg(d) : d \in AngleVals }

Vary(request, field, value) ==
    IF field = "total_frames"
    THEN [ request EXCEPT !.total_frames = value ]
    ELSE [ request EXCEPT !.metrics[field] = value ]

\* The changes of one field to one of its values.
FieldChanges ==
    UNION { { << f, v >> : v \in FieldValues(f) } : f \in RequestFields }

\* The request with the changes applied, first to last (a change to the
\* value the field has, or the same change twice, changes nothing more).
RECURSIVE ApplyChanges(_, _)
ApplyChanges(request, changes) ==
    IF changes = << >> THEN request
    ELSE ApplyChanges(Vary(request, Head(changes)[1], Head(changes)[2]),
                      Tail(changes))

\* ------------------------------------------------- live form check: data
\* Final_gym: run_live_match (scripts/realtime_match.py) reads camera frames,
\* extracts the angle vector (hip, knee, back, ankle) of each, smooths it and
\* shows and speaks a feedback tier.  Live angles are fixed-point with
\* LiveScale units per degree, so that MaxSmoothed blends with alpha = 1/5
\* are exact; a score is in units of 1/PerCent of a point of 100.
RECURSIVE Pow(_, _)
Pow(b, e) == IF e = 0 THEN 1 ELSE b * Pow(b, e - 1)

\* ema(smoothed, curr_angles, 0.2): alpha as a fraction.
ALPHA_NUM == 1

ALPHA_DEN == 5

LiveScale == Pow(ALPHA_DEN, MaxSmoothed - 1)

LiveDeg(d) == d * LiveScale

\* IDEAL_RANGES, in degrees.
HIP_MIN == 85

HIP_MAX == 130

KNEE_MIN == 70

KNEE_MAX == 140

BACK_MIN == 150

ANKLE_MIN == 70

ANKLE_MAX == 110

\* The straight angle the scores of analyze_pose measure from.
STRAIGHT == 180

EXCELLENT_THRESHOLD == 90

GOOD_THRESHOLD == 75

OKAY_THRESHOLD == 60

FEEDBACK_COOLDOWN == 30

\* A floating-point NaN: every comparison with it is false, every sum and
\* product with it is NaN.
NaN == -2

Lt(x, y) == x # NaN /\ y # NaN /\ x < y

Gt(x, y) == x # NaN /\ y # NaN /\ x > y

\* Python's None, for an angle vector.
None == << >>

\* The landmark indices extract_angle_vector resolves.
RequiredLandmarks == { 12, 23, 24, 25, 26, 27, 28, 30 }

\* pose.process(rgb) of one frame: whether results.pose_landmarks is set,
\* whether the landmark list is given at all, the indices it resolves, the
\* indices with a NaN coordinate, and the angles (in units) the points form
\* at the right hip, knee and ankle.
Landmarks(body, given, resolved, nan, hip, knee, ankle) ==
    [ body |-> body, given |-> given, resolved |-> resolved, nan |-> nan,
      hip |-> hip, knee |-> knee, ankle |-> ankle ]

\* pose_features.angle(a, b, c) for the landmarks a, b, c: the arccos of a
\* cosine clipped to [-1, 1], in degrees, is the angle the points form, in
\* [0, 180]; a NaN coordinate makes the norms, the cosine and the angle NaN.
angle(landmarks, a, b, c, formed) ==
    IF { a, b, c } \cap landmarks.nan # {} THEN NaN ELSE formed

\* ------------------------------------------- live form check: functions
\* not (np.any(angles < 0) or np.any(angles > 180)).
AnglesInRange(angles) ==
    ~ \E i \in 1..Len(angles) :
          Lt(angles[i], 0) \/ Gt(angles[i], LiveDeg(STRAIGHT))

\* extract_angle_vector without the test that every index resolves.
ExtractUnresolved(landmarks) ==
    IF ~ landmarks.given THEN None
    ELSE LET hip_angle == angle(landmarks, 12, 24, 26, landmarks.hip)
             knee_angle == angle(landmarks, 24, 26, 28, landmarks.knee)
             ankle_angle == angle(landmarks, 26, 28, 30, landmarks.ankle)
             angles == << hip_angle, knee_angle, hip_angle, ankle_angle >>
         IN  IF AnglesInRange(angles) THEN angles ELSE None

\* joint_angles.extract_angle_vector: [hip, knee, back, ankle] or None.
\* The hip angle and the back angle are both taken at the right hip between
\* shoulder and knee.
extract_angle_vector(landmarks) ==
    IF ~ landmarks.given THEN None
    ELSE IF ~ (RequiredLandmarks \subseteq landmarks.resolved) THEN None
    ELSE LET hip_angle == angle(landmarks, 12, 24, 26, landmarks.hip)
             knee_angle == angle(landmarks, 24, 26, 28, landmarks.knee)
             back_angle == angle(landmarks, 12, 24, 26, landmarks.hip)
             ankle_angle == angle(landmarks, 26, 28, 30, landmarks.ankle)
             angles == << hip_angle, knee_angle, back_angle, ankle_angle >>
         IN  IF AnglesInRange(angles) THEN angles ELSE None

\* alpha * curr + (1 - alpha) * prev with the weights exchanged.
BlendSwapped(prev, curr, num, den) ==
    IF prev = NaN \/ curr = NaN THEN NaN
    ELSE ((den - num) * curr + num * prev) \div den

\* alpha * curr + (1 - alpha) * prev for one component, alpha = num / den.
Blend(prev, curr, num, den) ==
    IF prev = NaN \/ curr = NaN THEN NaN
    ELSE (num * curr + (den - num) * prev) \div den

\* pose_features.ema(prev, curr, alpha).
ema(prev, curr, num, den) ==
    IF prev = None THEN curr
    ELSE [ i \in 1..Len(curr) |-> Blend(prev[i], curr[i], num, den) ]

\* Units per point of a score: the quotients of analyze_pose (by 85, 70,
\* 150, 50, 40) and its weights (in twentieths) are whole numbers of them.
PerCent == 14280 * LiveScale

\* The score of one angle times 714 * LiveScale, and its message: below the
\* range angle / min * 100, above it (180 - angle) / (180 - max) * 100, else
\* 100.  has_max is false for the back, which has no upper test.
RangeScore(a, min, max, has_max, low_text, high_text) ==
    IF Lt(a, LiveDeg(min))
    THEN [ score |-> (a * 71400) \div min, text |-> << low_text >> ]
    ELSE IF has_max /\ Gt(a, LiveDeg(max))
    THEN [ score |-> ((LiveDeg(STRAIGHT) - a) * 71400) \div (STRAIGHT - max),
           text |-> << high_text >> ]
    ELSE [ score |-> 71400 * LiveScale, text |-> << >> ]

\* realtime_match.analyze_pose for a vector of four angles: the average of
\* the four scores with weights 0.35, 0.35, 0.2, 0.1, and the messages
\* (joined by " | " in the code), "Good form" when there is none.
analyze_pose(angles) ==
    LET hip == RangeScore(angles[1], HIP_MIN, HIP_MAX, TRUE,
                          "Hips too high", "Hips too low")
        knee == RangeScore(angles[2], KNEE_MIN, KNEE_MAX, TRUE,
                           "Knees too bent", "Need to bend knees more")
        back == RangeScore(angles[3], BACK_MIN, STRAIGHT, FALSE,
                           "Straighten your back", "")
        ankle == RangeScore(angles[4], ANKLE_MIN, ANKLE_MAX, TRUE,
                            "Ankles too bent", "Need more ankle flexion")
        feedback == hip.text \o knee.text \o back.text \o ankle.text
    IN  [ score |-> 7 * hip.score + 7 * knee.score + 4 * back.score
                      + 2 * ankle.score,
          feedback |-> IF feedback = << >> THEN << "Good form" >> ELSE feedback ]

\* p points of a score, in units.
Points(p) == p * PerCent

\* The tier with "score > threshold" in place of "score >= threshold".
TierStrict(score) ==
    IF score > Points(EXCELLENT_THRESHOLD) THEN "EXCELLENT FORM"
    ELSE IF score > Points(GOOD_THRESHOLD) THEN "GOOD FORM"
    ELSE IF score > Points(OKAY_THRESHOLD) THEN "OKAY FORM"
    ELSE "FIX FORM"

\* The feedback tier of a score (run_live_match, lines 177-188).
Tier(score) ==
    IF score >= Points(EXCELLENT_THRESHOLD) THEN "EXCELLENT FORM"
    ELSE IF score >= Points(GOOD_THRESHOLD) THEN "GOOD FORM"
    ELSE IF score >= Points(OKAY_THRESHOLD) THEN "OKAY FORM"
    ELSE "FIX FORM"

\* The feedback string of a scored frame: the tier, and below the excellent
\* threshold a second line with the messages of analyze_pose.
ScoredFeedback(score, pose_feedback) ==
    IF score < Points(EXCELLENT_THRESHOLD)
    THEN << Tier(score) >> \o pose_feedback
    ELSE << Tier(score) >>

\* ---------------------------------------------- live form check: frames
\* What the pose model makes of the frames of the model's streams: no body;
\* a body in a pose with score exactly 90, exactly 75, exactly 60 and below
\* 60 (hip, knee, ankle angles); a landmark list without the foot index; a
\* foot landmark with a NaN coordinate; a shoulder landmark with a NaN
\* coordinate in a pose with the knee and the ankle within their ranges.
NoBody == Landmarks(FALSE, TRUE, {}, {}, 0, 0, 0)

Body(hip, knee, ankle) ==
    Landmarks(TRUE, TRUE, RequiredLandmarks, {},
              LiveDeg(hip), LiveDeg(knee), LiveDeg(ankle))

LivePoses == { Body(120, 100, 28), Body(120, 164, 100), Body(120, 180, 63),
               Body(30, 20, 30) }

LiveFrames ==
    { NoBody } \cup LivePoses
    \cup { [ Body(120, 100, 28) EXCEPT !.resolved = RequiredLandmarks \ { 30 } ],
           [ Body(120, 100, 28) EXCEPT !.nan = { 30 } ],
           [ Body(120, 100, 90) EXCEPT !.nan = { 12 } ] }

\* The frame of a body that holds the pose of the smoothed vector (its hip
\* angle is its back angle): a landmark with a NaN coordinate where the
\* vector has a NaN.
HeldFrame(smoothed) ==
    [ Body(0, 0, 0) EXCEPT
        !.nan = (IF smoothed[1] = NaN THEN { 12 } ELSE {})
                \cup (IF smoothed[4] = NaN THEN { 30 } ELSE {}),
        !.hip = smoothed[1], !.knee = smoothed[2], !.ankle = smoothed[4] ]

\* The locals and resources of run_live_match before it is called, and the
\* history of its calls of speak: how many iterations ago the last one was
\* (counted up to FEEDBACK_COOLDOWN, which also stands for no call so far)
\* and the feedback string it was made for.
LiveIdle ==
    [ pc |-> "idle", exit |-> "", speak_on |-> FALSE,
      pose_open |-> FALSE, cap_open |-> FALSE,
      smoothed |-> None, last_feedback |-> << >>, feedback_cooldown |-> 0,
      blends |-> 0, frame |-> NoBody, score |-> 0, feedback |-> << >>,
      spoken |-> << >>, speak_failed |-> FALSE,
      since |-> FEEDBACK_COOLDOWN, announced |-> << >> ]

\* speak with the exception of the engine passed on to the caller.
SpeakRaising(text, engine_ok) ==
    [ said |-> IF engine_ok THEN text ELSE << >>,
      failed |-> ~ engine_ok, raised |-> ~ engine_ok ]

\* sound.speak(text): what is said, whether the engine failed, and whether
\* the call raises: the exceptions of the engine are swallowed.
speak(text, engine_ok) ==
    [ said |-> IF engine_ok THEN text ELSE << >>,
      failed |-> ~ engine_ok, raised |-> FALSE ]

\* The cooldown left as it is at the end of an iteration.
CountdownStuck(feedback_cooldown) == feedback_cooldown

\* max(0, feedback_cooldown - 1) (line 202).
Countdown(feedback_cooldown) == Max2(0, feedback_cooldown - 1)

\* The test of line 193 with "or" in place of "and".
NotifyEither(feedback, last_feedback, feedback_cooldown) ==
    feedback # last_feedback \/ feedback_cooldown <= 0

\* `feedback != last_feedback and feedback_cooldown <= 0` (line 193).
Notify(feedback, last_feedback, feedback_cooldown) ==
    feedback # last_feedback /\ feedback_cooldown <= 0

\* One iteration of the loop of run_live_match on a frame that was read
\* (lines 157-219), for the locals l: the frame's landmarks and whether the
\* speech engine works.  An exception of speak would skip the assignment of
\* the cooldown and be dropped (lines 195-199).
LiveStep(l, landmarks, speak_ok) ==
    LET curr_angles ==
          IF landmarks.body THEN extract_angle_vector(landmarks) ELSE None
        scored == curr_angles # None
        smoothed ==
          IF scored THEN ema(l.smoothed, curr_angles, ALPHA_NUM, ALPHA_DEN)
          ELSE l.smoothed
        analysis == analyze_pose(smoothed)
        feedback ==
          IF scored THEN ScoredFeedback(analysis.score, analysis.feedback)
          ELSE << "NO BODY DETECTED" >>
        notify ==
          scored /\ Notify(feedback, l.last_feedback, l.feedback_cooldown)
        speaks == notify /\ l.speak_on
        text == IF analysis.score < Points(EXCELLENT_THRESHOLD)
                THEN analysis.feedback ELSE << "Perfect form" >>
        call == speak(text, speak_ok)
        feedback_cooldown ==
          IF speaks /\ ~ call.raised THEN FEEDBACK_COOLDOWN
          ELSE l.feedback_cooldown
    IN  [ l EXCEPT
            !.smoothed = smoothed,
            !.last_feedback = IF notify THEN feedback ELSE @,
            !.feedback_cooldown = Countdown(feedback_cooldown),
            !.blends = IF scored /\ smoothed # l.smoothed THEN @ + 1 ELSE @,
            !.frame = landmarks,
            !.score = IF scored THEN analysis.score ELSE 0,
            !.feedback = feedback,
            !.spoken = IF speaks THEN call.said ELSE << >>,
            !.speak_failed = speaks /\ call.failed,
            !.since = IF speaks THEN 1 ELSE Min2(@ + 1, FEEDBACK_COOLDOWN),
            !.announced = IF speaks THEN feedback ELSE @ ]

\* The finally block of run_live_match (lines 225-228): the capture is
\* released and the windows are destroyed; the function returns.
LiveCleanup(l, exit) ==
    [ l EXCEPT !.pc = "returned", !.exit = exit, !.cap_open = FALSE ]

\* ----------------------------------------------------------------- state
\* ---------------------------------------------------------------------
\* Persistence: db/connection.py, db/queries.py, tools/upload_video.py,
\* tools/save_analysis_results.py and the /api/analyze endpoint of
\* api_server.py.  Session ids are the uuid4 values in the order they were
\* issued, which is also the order of the rows' created_at.
\* ---------------------------------------------------------------------

MaxSessions == 2     \* uuid4 values upload_video can issue
MaxRequests == 2     \* /api/analyze requests in flight

SessionIds == 1..MaxSessions
Requests == 1..MaxRequests

NULL == "NULL"
NoSession == 0

ALLOWED_VIDEO_EXTENSIONS == { ".mp4", ".mov", ".avi", ".webm" }
MIN_VIDEO_SIZE_BYTES == 1024
MAX_VIDEO_SIZE_BYTES == 100 * 1024 * 1024

\* The tables save_analysis_results writes, in the order it writes them.
ResultTables == << "analysis_results", "form_issues", "metrics", "strengths", "recommendations" >>

NoRow == [ status |-> "absent", user_id |-> NULL, exercise_name |-> "" ]

EmptyTables ==
    [ analysis_sessions |-> [ id \in SessionIds |-> NoRow ],
      written |-> [ id \in SessionIds |-> {} ] ]

\* The user ids a caller passes: the demo user, and one that parses as a UUID.
UserIds == { "demo_user", "7c9e6679-7425-40de-944b-e07fc1f90ae7" }

is_uuid(user_id) == user_id = "7c9e6679-7425-40de-944b-e07fc1f90ae7"

\* queries.py: the statements, as functions from tables to tables.
create_analysis_session(tables, session_id, user_id, name) ==
    [ tables EXCEPT !.analysis_sessions[session_id] =
        [ status |-> "pending",
          user_id |-> IF is_uuid(user_id) THEN user_id ELSE NULL,
          exercise_name |-> name ] ]

update_session_status(tables, session_id, status) ==
    IF tables.analysis_sessions[session_id].status = "absent"
    THEN tables
    ELSE [ tables EXCEPT !.analysis_sessions[session_id].status = status ]

create_rows(tables, session_id, table) ==
    [ tables EXCEPT !.written[session_id] = @ \cup { table } ]

execute(tables, statement) ==
    CASE statement.op = "create_analysis_session" ->
           create_analysis_session(tables, statement.session_id, statement.user_id, statement.exercise_name)
      [] statement.op = "update_session_status" ->
           update_session_status(tables, statement.session_id, statement.status)
      [] OTHER -> create_rows(tables, statement.session_id, statement.op)

RECURSIVE Executed(_, _, _)
Executed(tables, statements, n) ==
    IF n = 0 THEN tables
    ELSE execute(Executed(tables, statements, n - 1), statements[n])

\* connection.py get_db_connection: the block's statements run on one
\* connection; it commits when the block ends and rolls back when a statement
\* or the commit raises.  fails_at is the statement that raises, 0 for none,
\* Len(statements) + 1 for the commit.
AutoCommit(tables, statements, fails_at) ==
    IF fails_at = 0 THEN Executed(tables, statements, Len(statements))
    ELSE Executed(tables, statements, fails_at - 1)

get_db_connection(tables, statements, fails_at) ==
    IF fails_at = 0 THEN Executed(tables, statements, Len(statements))
    ELSE tables

ToolReturn(tool, status, error_type, session_id) ==
    [ tool |-> tool, status |-> status, error_type |-> error_type, session_id |-> session_id ]

NoReturn == ToolReturn("", "", "", NoSession)

\* upload_video.py lines 68-102: the error the validation raises, "" for none.
Video(isfile, ext, size) == [ isfile |-> isfile, ext |-> ext, size |-> size ]

UploadValidation(video) ==
    CASE ~video.isfile -> "Video file not found"
      [] video.ext \notin ALLOWED_VIDEO_EXTENSIONS -> "Unsupported file type"
      [] video.size = 0 -> "File is empty"
      [] video.size < MIN_VIDEO_SIZE_BYTES -> "File too small"
      [] video.size > MAX_VIDEO_SIZE_BYTES -> "File exceeds limit"
      [] OTHER -> ""

UploadStatements(session_id, user_id, name) ==
    << [ op |-> "create_analysis_session", session_id |-> session_id, user_id |-> user_id, exercise_name |-> name ],
       [ op |-> "update_session_status", session_id |-> session_id, status |-> "processing" ] >>

\* upload_video: store is [tables, uploads, issued]; copy is how
\* shutil.copy2 ends ("ok", "unopened": it raised before creating the
\* destination, "partial": it raised after creating it); fails_at is where
\* the transaction raises; remove_ok is whether os.remove succeeds.
KeptAfterDatabaseError(uploads, session_id, remove_ok) ==
    IF remove_ok THEN uploads \ { session_id } ELSE uploads

upload_video(store, video, name, user_id, copy, fails_at, remove_ok) ==
    LET session_id == store.issued + 1
        copied == [ store EXCEPT !.issued = session_id, !.uploads = @ \cup { session_id } ]
    IN  IF UploadValidation(video) # ""
        THEN [ store EXCEPT !.returned = ToolReturn("upload_video", "error", "validation", NoSession) ]
        ELSE IF copy = "unopened"
        THEN [ store EXCEPT !.issued = session_id,
                            !.returned = ToolReturn("upload_video", "error", "validation", NoSession) ]
        ELSE IF copy = "partial"
        THEN [ copied EXCEPT !.returned = ToolReturn("upload_video", "error", "validation", NoSession) ]
        ELSE IF fails_at # 0
        THEN [ copied EXCEPT !.tables = get_db_connection(@, UploadStatements(session_id, user_id, name), fails_at),
                             !.uploads = KeptAfterDatabaseError(@, session_id, remove_ok),
                             !.returned = ToolReturn("upload_video", "error", "database", NoSession) ]
        ELSE [ copied EXCEPT !.tables = get_db_connection(@, UploadStatements(session_id, user_id, name), 0),
                             !.returned = ToolReturn("upload_video", "success", "", session_id) ]

SaveStatements(session_id) ==
    [ i \in 1..Len(ResultTables) |-> [ op |-> ResultTables[i], session_id |-> session_id ] ]
    \o << [ op |-> "update_session_status", session_id |-> session_id, status |-> "completed" ] >>

\* save_analysis_results lines 157-200: the handlers mark the session failed
\* in a transaction of their own and swallow what that transaction raises.
MarkFailed(tables, session_id, mark_fails_at) ==
    get_db_connection(tables,
        << [ op |-> "update_session_status", session_id |-> session_id, status |-> "failed" ] >>,
        mark_fails_at)

\* save_analysis_results: complete is whether overall_score and total_frames
\* are both given; fails_at is where the main transaction raises and
\* mark_fails_at where the one of the handler does.
save_analysis_results(store, session_id, complete, fails_at, mark_fails_at) ==
    IF ~complete
    THEN [ store EXCEPT !.tables = MarkFailed(@, session_id, mark_fails_at),
                        !.returned = ToolReturn("save_analysis_results", "error", "validation", session_id) ]
    ELSE IF fails_at # 0
    THEN [ store EXCEPT !.tables = MarkFailed(get_db_connection(@, SaveStatements(session_id), fails_at),
                                              session_id, mark_fails_at),
                        !.returned = ToolReturn("save_analysis_results", "error", "database", session_id) ]
    ELSE [ store EXCEPT !.tables = get_db_connection(@, SaveStatements(session_id), 0),
                        !.returned = ToolReturn("save_analysis_results", "success", "", session_id) ]

\* queries.py get_analysis_result_by_session: the session's result, if it
\* has a row in analysis_results.
get_analysis_result_by_session(tables, session_id) ==
    IF "analysis_results" \in tables.written[session_id] THEN session_id ELSE NoSession

\* api_server.py lines 394-416: the fallback query, the newest session of
\* the exercise that is the user's or nobody's (all rows are younger than
\* five minutes).
FallbackSession(tables, name, user_id) ==
    LET db_user_id == IF user_id = "demo_user" THEN NULL ELSE user_id
        rows == { id \in SessionIds :
                    /\ tables.analysis_sessions[id].status # "absent"
                    /\ tables.analysis_sessions[id].exercise_name = name
                    /\ \/ db_user_id # NULL /\ tables.analysis_sessions[id].user_id = db_user_id
                       \/ tables.analysis_sessions[id].user_id = NULL }
    IN  IF rows = {} THEN NoSession
        ELSE CHOOSE id \in rows : \A other \in rows : other <= id

\* One /api/analyze request: where it is, its form fields, the session id
\* tracked from the tool result, the session its own upload_video call
\* created, and the response.
NoRequest ==
    [ pc |-> "idle", user_id |-> "demo_user", tracked_session_id |-> NoSession,
      own |-> NoSession, status_code |-> 0, session_id |-> NoSession ]

EmptyStore ==
    [ tables |-> EmptyTables, uploads |-> {}, issued |-> 0, returned |-> NoReturn,
      temps |-> {}, requests |-> [ r \in Requests |-> NoRequest ] ]

VARIABLES
    pc,             \* "start", "reading", "extracted", "analyzed"; "live",
                    \* "steady" while run_live_match runs
    exercise_name,  \* the exercise the session is about
    frame_interval, \* extract_pose_landmarks: every which frame is processed
    idx,            \* extract_pose_landmarks: the index of the next frame
    frames,         \* extract_pose_landmarks: [frame, angles] per detection
    pose_data,      \* what extract_pose_landmarks returned / the agent passes
    result,         \* what analyze_workout_form returned
    live,           \* run_live_match: its locals, resources and position
    db              \* the database tables, the uploads directory and the
                    \* /api/analyze requests in flight

vars == << pc, exercise_name, frame_interval, idx, frames, pose_data, result, live, db >>

Init ==
    /\ pc = "start"
    /\ exercise_name \in ExerciseNames
    /\ frame_interval = 1
    /\ idx = 0
    /\ frames = << >>
    /\ pose_data = NoPoseData
    /\ result = NoResult
    /\ live = LiveIdle
    /\ db = EmptyStore

\* extract_pose_landmarks up to its frame loop: it returns an error
\* dictionary, or opens the video.
SetupFails(error_type) ==
    /\ pc = "start"
    /\ pc' = "extracted"
    /\ pose_data' = PoseData("error", error_type, Missing, NoMetrics)
    /\ UNCHANGED << exercise_name, frame_interval, idx, frames, result, live, db >>

OpenVideo(interval) ==
    /\ pc = "start"
    /\ pc' = "reading"
    /\ frame_interval' = interval
    /\ UNCHANGED << exercise_name, idx, frames, pose_data, result, live, db >>

\* One iteration of the frame loop on a frame that is not processed, or
\* in which the pose model finds no body.
SkipFrame ==
    /\ pc = "reading"
    /\ idx < MaxVideoFrames
    /\ idx' = idx + 1
    /\ UNCHANGED << pc, exercise_name, frame_interval, frames, pose_data, result, live, db >>

\* One iteration of the frame loop on a processed frame with a body.
DetectFrame(angles) ==
    /\ pc = "reading"
    /\ idx < MaxVideoFrames
    /\ idx % frame_interval = 0
    /\ frames' = Append(frames, [ frame |-> idx, angles |-> angles ])
    /\ idx' = idx + 1
    /\ UNCHANGED << pc, exercise_name, frame_interval, pose_data, result, live, db >>

\* cap.read() fails: the loop ends, and the function returns.
EndOfVideo ==
    /\ pc = "reading"
    /\ pc' = "extracted"
    /\ pose_data' =
         IF frames = << >>
         THEN PoseData("error", "PoseExtractionError", Missing, NoMetrics)
         ELSE PoseData("success", "", Len(frames),
                       aggregate_metrics([ i \in 1..Len(frames) |-> frames[i].angles ]))
    /\ UNCHANGED << exercise_name, frame_interval, idx, frames, result, live, db >>

\* The agent calls analyze_workout_form with pose data of its own.
SupplyPoseData ==
    /\ pc = "start"
    /\ \E base \in BaseRequests, changes \in [ 1..MaxVaried -> FieldChanges ] :
         pose_data' = ApplyChanges(base, changes)
    /\ pc' = "extracted"
    /\ UNCHANGED << exercise_name, frame_interval, idx, frames, result, live, db >>

\* analyze_workout_form(pose_data, exercise_name).
Analyze ==
    /\ pc = "extracted"
    /\ pc' = "analyzed"
    /\ result' \in analyze_workout_form(pose_data, exercise_name)
    /\ UNCHANGED << exercise_name, frame_interval, idx, frames, pose_data, live, db >>

\* ------------------------------------------------------- run_live_match
\* The script checks the squat: its ideal ranges and its default exercise.
LiveSession == pc = "start" /\ Lower(exercise_name) = "squat"

BatchUnchanged ==
    UNCHANGED << exercise_name, frame_interval, idx, frames, pose_data, result, db >>

\* run_live_match up to its loop (lines 99-148) when the reference does not
\* load or is shorter than 20 frames, the pose model does not initialise, or
\* the camera does not open: the exception is raised to the caller.
LiveSetupFails(stage) ==
    /\ LiveSession
    /\ pc' = "live"
    /\ live' = [ LiveIdle EXCEPT !.pc = "raised", !.exit = stage,
                                 !.pose_open = (stage = "camera") ]
    /\ BatchUnchanged

\* run_live_match up to its loop, everything set up.
RunLiveMatch(speak_on) ==
    /\ LiveSession
    /\ pc' = "live"
    /\ live' = [ LiveIdle EXCEPT !.pc = "loop", !.speak_on = speak_on,
                                 !.pose_open = TRUE, !.cap_open = TRUE ]
    /\ BatchUnchanged

\* One iteration of the loop: a frame is read and processed, and the key
\* "q" is pressed or not.
LiveFrame(landmarks, speak_ok, key_q) ==
    /\ pc = "live" /\ live.pc = "loop"
    /\ (landmarks.body /\ extract_angle_vector(landmarks) # None)
         => live.blends < MaxSmoothed
    /\ live' = IF key_q
               THEN LiveCleanup(LiveStep(live, landmarks, speak_ok), "stop")
               ELSE LiveStep(live, landmarks, speak_ok)
    /\ UNCHANGED pc
    /\ BatchUnchanged

\* cap.read() fails: the loop is left.
LiveReadFails ==
    /\ pc = "live" /\ live.pc = "loop"
    /\ live' = LiveCleanup(live, "capture")
    /\ UNCHANGED pc
    /\ BatchUnchanged

\* An exception in the body of the loop: it is printed, the loop is left.
LiveRuntimeError ==
    /\ pc = "live" /\ live.pc = "loop"
    /\ live' = LiveCleanup(live, "error")
    /\ UNCHANGED pc
    /\ BatchUnchanged

Next ==
    \/ \E e \in SetupFailures : SetupFails(e)
    \/ \E i \in FrameIntervals : OpenVideo(i)
    \/ SkipFrame
    \/ \E a \in FramePoses : DetectFrame(a)
    \/ EndOfVideo
    \/ SupplyPoseData
    \/ Analyze

Spec == Init /\ [][Next]_vars

\* The live form check on its own: a session that runs run_live_match.
LiveNext ==
    \/ \E stage \in { "reference", "pose", "camera" } : LiveSetupFails(stage)
    \/ \E speak_on \in BOOLEAN : RunLiveMatch(speak_on)
    \/ \E landmarks \in LiveFrames, speak_ok, key_q \in BOOLEAN :
         LiveFrame(landmarks, speak_ok, key_q)
    \/ LiveReadFails
    \/ LiveRuntimeError

LiveSpec == Init /\ [][LiveNext]_vars

\* One iteration of the loop, with audio, on a frame of a body that holds
\* the pose of the smoothed vector; from the first such frame on every frame
\* is one (pc = "steady"), and the loop goes on reading frames.
SteadyFrame(speak_ok) ==
    /\ pc \in { "live", "steady" } /\ live.pc = "loop"
    /\ live.speak_on /\ live.smoothed # None
    /\ pc' = "steady"
    /\ live' = LiveStep(live, HeldFrame(live.smoothed), speak_ok)
    /\ BatchUnchanged

\* The live form check with audio on a stream that settles.
SteadyNext ==
    \/ RunLiveMatch(TRUE)
    \/ \E landmarks \in LiveFrames, speak_ok \in BOOLEAN :
         LiveFrame(landmarks, speak_ok, FALSE)
    \/ \E speak_ok \in BOOLEAN : SteadyFrame(speak_ok)

SteadySpec == Init /\ [][SteadyNext]_vars

\* ---------------------------------------------------------------- claims
\* The pose data the scorers are asked about: whatever has been extracted or
\* supplied, success or not.
HasPoseData == pose_data.status # "none"

Analyzed == pc = "analyzed" /\ result.status = "success"

UsesSquatPolicy == Lower(exercise_name) \in { "squat", "squats" }

\* C1: for every metrics input with angles in [0, 180], missing keys
\* included, the squat scorer and the generic scorer return a score in the
\* closed range [0, 10], and so does every analysis that succeeds.
C1_ScoreInRange ==
    /\ HasPoseData =>
         \A s \in calculate_squat_score(pose_data.metrics)
                    \cup calculate_generic_score(pose_data.metrics) :
            0 <= s /\ s <= 100
    /\ Analyzed => 0 <= result.overall_score /\ result.overall_score <= 100

\* C1, its case: a penalised analysis of metrics with a missing key.
C1_Witness ==
    /\ Analyzed
    /\ result.overall_score < 100
    /\ \E k \in MetricKeys : pose_data.metrics[k] = Missing

\* C2, the penalties as the claim writes them, in units, for metrics m.
C2_Depth(m) ==
    LET k == Min2(IF m["left_knee_min"] = Missing THEN 180 * Scale
                  ELSE m["left_knee_min"],
                  IF m["right_knee_min"] = Missing THEN 180 * Scale
                  ELSE m["right_knee_min"])
    IN  IF k > 110 * Scale THEN Min2(2 * (k - 90 * Scale), 3 * Point)
        ELSE IF k < 70 * Scale THEN Min2(4 * (70 * Scale - k), (3 * Point) \div 2)
        ELSE 0

C2_Asymmetry(m) ==
    LET l == IF m["left_knee_avg"] = Missing THEN 180 * Scale ELSE m["left_knee_avg"]
        r == IF m["right_knee_avg"] = Missing THEN 180 * Scale ELSE m["right_knee_avg"]
        a == IF l < r THEN r - l ELSE l - r
    IN  IF a > 15 * Scale THEN Min2(4 * a, 2 * Point) ELSE 0

C2_Lean(m) ==
    LET l == IF m["left_hip_avg"] = Missing THEN 180 * Scale ELSE m["left_hip_avg"]
        r == IF m["right_hip_avg"] = Missing THEN 180 * Scale ELSE m["right_hip_avg"]
    IN  IF l + r < 300 * Scale THEN Min2(300 * Scale - (l + r), 2 * Point) ELSE 0

\* C2: the squat score is max(0, 10 - (D + A + L)) rounded to one decimal,
\* with D the depth penalty (insufficient or excessive, never both), A the
\* knee asymmetry penalty and L the forward lean penalty of the claim.
C2_SquatScoreFormula ==
    LET expected(m) ==
          Round1(Max2(0, 10 * Point - (C2_Depth(m) + C2_Asymmetry(m) + C2_Lean(m))))
    IN  /\ HasPoseData =>
             calculate_squat_score(pose_data.metrics) = expected(pose_data.metrics)
        /\ Analyzed /\ UsesSquatPolicy =>
             result.overall_score \in expected(pose_data.metrics)

\* C2, its case: a squat analysis in which all three penalties apply.
C2_Witness ==
    /\ Analyzed /\ UsesSquatPolicy
    /\ C2_Depth(pose_data.metrics) > 0
    /\ C2_Asymmetry(pose_data.metrics) > 0
    /\ C2_Lean(pose_data.metrics) > 0

\* The metrics with the two knee averages replaced.
WithKneeAvgs(m, left, right) ==
    [ m EXCEPT !["left_knee_avg"] = left, !["right_knee_avg"] = right ]

\* The values one knee average takes in the comparisons of C3.
KneeAvgValues == { Missing } \cup { Deg(d) : d \in AngleVals }

\* The metrics that differ from m in one of the knee averages only.
KneeAvgVariants(m) ==
    { WithKneeAvgs(m, v, m["right_knee_avg"]) : v \in KneeAvgValues }
    \cup { WithKneeAvgs(m, m["left_knee_avg"], v) : v \in KneeAvgValues }

\* No score the scorer can return for m2 is above one it can return for m1.
\* Equal penalty lists are one and the same computation, with one result.
NotHigher(penalties2, scores2, penalties1, scores1) ==
    \/ penalties2 = penalties1
    \/ \A s2 \in scores2, s1 \in scores1 : s2 <= s1

\* C3: under both policies, of two inputs that differ only in the knee
\* asymmetry, both above the warning threshold of 15 degrees, the one with
\* the larger asymmetry never gets the higher score.
C3_AsymmetryMonotone ==
    (pc = "extracted" /\ KneeAsymmetry(pose_data.metrics) > Deg(15)) =>
      LET asymmetry1 == KneeAsymmetry(pose_data.metrics)
          squat_penalties1 == SquatPenalties(pose_data.metrics)
          squat_scores1 == calculate_squat_score(pose_data.metrics)
          generic_penalties1 == GenericPenalties(pose_data.metrics)
          generic_scores1 == calculate_generic_score(pose_data.metrics)
      IN  \A m2 \in KneeAvgVariants(pose_data.metrics) :
            KneeAsymmetry(m2) >= asymmetry1 =>
              /\ NotHigher(SquatPenalties(m2), calculate_squat_score(m2),
                           squat_penalties1, squat_scores1)
              /\ NotHigher(GenericPenalties(m2), calculate_generic_score(m2),
                           generic_penalties1, generic_scores1)

\* C3, its case: an analysed input above the threshold that has a variant
\* with a strictly larger asymmetry and a strictly lower squat score.
C3_Witness ==
    /\ Analyzed
    /\ KneeAsymmetry(pose_data.metrics) > Deg(15)
    /\ \E m2 \in KneeAvgVariants(pose_data.metrics) :
         /\ KneeAsymmetry(m2) > KneeAsymmetry(pose_data.metrics)
         /\ \A s2 \in calculate_squat_score(m2) : s2 < result.overall_score

\* Scenario B: a squat analysis of metrics whose minimum knee angle is 125,
\* with the knee asymmetry and the hip angle within tolerance.
ScenarioBAnalyzed ==
    /\ Analyzed /\ UsesSquatPolicy
    /\ MinKneeAngle(pose_data.metrics) = Deg(125)
    /\ KneeAsymmetry(pose_data.metrics) <= Deg(15)
    /\ AvgHip(pose_data.metrics) >= Deg(150)

\* The issue list holds one issue, of the given type and severity.
OneIssue(issues, type, severity) ==
    /\ Len(issues) = 1
    /\ issues[1].issue_type = type
    /\ issues[1].severity = severity

\* C4 as claimed: a minimum knee angle of 125 yields exactly one issue,
\* 'Insufficient Squat Depth', of severity 'moderate', and a score below 10.
C4_AsClaimed ==
    ScenarioBAnalyzed =>
      /\ OneIssue(result.issues, "Insufficient Squat Depth", "moderate")
      /\ result.overall_score < 100

\* C4 as amended: a minimum knee angle of 125 is above the severe depth
\* threshold of 120, so the one 'Insufficient Squat Depth' issue is of
\* severity 'severe'; the score is below 10.
C4_ShallowSquatIsSevere ==
    ScenarioBAnalyzed =>
      /\ OneIssue(result.issues, "Insufficient Squat Depth", "severe")
      /\ result.overall_score < 100

\* C4, its case: Scenario B has been analysed.
C4_Witness == ScenarioBAnalyzed

\* C5 as claimed: an extraction that keeps fewer than 20 frames (and at
\* least one) returns an error, without metrics, and its analysis returns an
\* error without a score.
C5_AsClaimed ==
    (pc = "analyzed" /\ frames # << >> /\ Len(frames) < 20) =>
      /\ pose_data.status = "error"
      /\ IsEmptyMetrics(pose_data.metrics)
      /\ result.status = "error"
      /\ "overall_score" \notin result.keys

\* Scenario D: an analysis under the generic policy of metrics with a knee
\* asymmetry of 30 and the other dimensions within tolerance.
ScenarioDAnalyzed ==
    /\ Analyzed /\ ~UsesSquatPolicy
    /\ KneeAsymmetry(pose_data.metrics) = Deg(30)
    /\ KneeRange(pose_data.metrics) >= Deg(40)
    /\ HipVariance(pose_data.metrics) <= Deg(25)

\* C6: for a non-squat exercise, a knee asymmetry of 30 with every other
\* dimension within tolerance yields exactly one issue, 'Asymmetric Movement
\* Pattern', of severity 'severe' and confidence 0.80.
C6_AsymmetricPatternSevere ==
    ScenarioDAnalyzed =>
      /\ OneIssue(result.issues, "Asymmetric Movement Pattern", "severe")
      /\ result.issues[1].confidence_score = 80

\* C6, its case: Scenario D has been analysed.
C6_Witness == ScenarioDAnalyzed

\* C7 as claimed: every issue of either policy is 'moderate' or 'severe'.
C7_AsClaimed ==
    Analyzed =>
      \A i \in 1..Len(result.issues) :
        result.issues[i].severity \in { "moderate", "severe" }

\* The severity an issue of the given type has for metrics m: the higher of
\* the two levels of its dimension exactly when the second, stricter
\* threshold of the dimension is passed too.
C7_Severity(type, m) ==
    CASE type = "Insufficient Squat Depth" ->
           IF MinKneeAngle(m) > Deg(120) THEN "severe" ELSE "moderate"
      [] type = "Knee Asymmetry/Valgus" ->
           IF KneeAsymmetry(m) > Deg(25) THEN "severe" ELSE "moderate"
      [] type = "Excessive Forward Lean" ->
           IF AvgHip(m) < Deg(135) THEN "severe" ELSE "moderate"
      [] type = "Asymmetric Movement Pattern" ->
           IF Max2(KneeAsymmetry(m), HipAsymmetry(m)) > Deg(25)
           THEN "severe" ELSE "moderate"
      [] type = "Limited Range of Motion" ->
           IF KneeRange(m) < Deg(20) THEN "moderate" ELSE "minor"
      [] type = "Core Stability Issue" ->
           IF HipVariance(m) > Deg(35) THEN "moderate" ELSE "minor"

\* C7 as amended: the tiering is two-level per dimension, but the two levels
\* are 'moderate' and 'severe' only for the three squat issues and the
\* generic asymmetry issue; for the generic range-of-motion and core
\* stability issues they are 'minor' and 'moderate'.  In every case the
\* higher level is given exactly when the second threshold is passed.
C7_TwoLevelsPerDimension ==
    Analyzed =>
      \A i \in 1..Len(result.issues) :
        result.issues[i].severity
          = C7_Severity(result.issues[i].issue_type, pose_data.metrics)

\* C7, its case: one analysis with a 'minor', a 'moderate' and a 'severe'
\* issue.
C7_Witness ==
    /\ Analyzed
    /\ \A sev \in { "minor", "moderate", "severe" } :
         \E i \in 1..Len(result.issues) : result.issues[i].severity = sev

\* C8 as claimed: every issue of a successful analysis has
\* 0 <= frame_start <= frame_end <= total_frames, for every total_frames >= 0.
C8_AsClaimed ==
    Analyzed =>
      \A i \in 1..Len(result.issues) :
        /\ 0 <= result.issues[i].frame_start
        /\ result.issues[i].frame_start <= result.issues[i].frame_end
        /\ result.issues[i].frame_end <= result.total_frames

\* The types of the depth issues and of the asymmetry issues.
DepthIssueTypes == { "Insufficient Squat Depth" }

AsymmetryIssueTypes == { "Knee Asymmetry/Valgus", "Asymmetric Movement Pattern" }

\* C9 as claimed: with N the total frame count, every depth issue spans
\* [int(0.2 N), int(0.8 N)] and every asymmetry issue, of either policy,
\* spans [int(0.25 N), int(0.75 N)].
C9_AsClaimed ==
    Analyzed =>
      \A i \in 1..Len(result.issues) :
        LET issue == result.issues[i]
            N == result.total_frames
        IN  /\ issue.issue_type \in DepthIssueTypes =>
                 /\ issue.frame_start = (2 * N) \div 10
                 /\ issue.frame_end = (8 * N) \div 10
            /\ issue.issue_type \in AsymmetryIssueTypes =>
                 /\ issue.frame_start = N \div 4
                 /\ issue.frame_end = (3 * N) \div 4

\* An 'Outstanding ... form' message is among the strengths.
HasGoodFormMessage(strengths) ==
    \E i \in 1..Len(strengths) :
      strengths[i] \in { OutstandingSquat, OutstandingGeneric }

\* A squat analysis of metrics within every tolerance.
GoodSquatAnalyzed ==
    /\ Analyzed /\ UsesSquatPolicy
    /\ MinKneeAngle(pose_data.metrics) >= Deg(70)
    /\ MinKneeAngle(pose_data.metrics) <= Deg(95)
    /\ KneeAsymmetry(pose_data.metrics) <= Deg(15)
    /\ AvgHip(pose_data.metrics) >= Deg(150)

\* C10: a squat within every tolerance gets no issue, the score 10.0 and
\* the good-form message; in every successful analysis the good-form
\* message is among the strengths exactly when the issue list is empty.
C10_GoodForm ==
    /\ GoodSquatAnalyzed =>
         /\ result.issues = << >>
         /\ result.overall_score = 100
         /\ HasGoodFormMessage(result.strengths)
    /\ Analyzed =>
         (HasGoodFormMessage(result.strengths) <=> result.issues = << >>)

\* C10, its case: the metrics of Scenario A analysed as a squat.
C10_Witness ==
    /\ GoodSquatAnalyzed
    /\ pose_data.metrics = MetricsOf(ScenarioA)

\* The names of the model that spell squat or squats, in any case.
SquatSpellings == { "Squat", "squats", "SQUATS" }

\* The five parts of a result are those of the squat policy.
AllSquatParts ==
    /\ result.overall_score \in calculate_squat_score(pose_data.metrics)
    /\ result.issues = identify_squat_issues(pose_data.metrics, result.total_frames)
    /\ result.metrics = generate_metrics(pose_data.metrics)
    /\ result.strengths = generate_strengths(pose_data.metrics, result.issues)
    /\ result.recommendations =
         generate_recommendations(result.issues, result.overall_score)

\* The five parts of a result are those of the generic policy.
AllGenericParts ==
    /\ result.overall_score \in calculate_generic_score(pose_data.metrics)
    /\ result.issues = identify_generic_issues(pose_data.metrics, result.total_frames)
    /\ result.metrics = generate_generic_metrics(pose_data.metrics)
    /\ result.strengths = generate_generic_strengths(pose_data.metrics, result.issues)
    /\ result.recommendations =
         generate_generic_recommendations(result.issues, result.overall_score)

\* C11: the policy is selected by the exercise name without regard to case:
\* score, issues, metrics, strengths and recommendations of a result are all
\* the squat policy's exactly when the name spells squat or squats, and all
\* the generic policy's for every other name; the two are never mixed.
C11_PolicySelection ==
    Analyzed =>
      IF exercise_name \in SquatSpellings THEN AllSquatParts ELSE AllGenericParts

\* C11, its case: an upper-case squat name on metrics for which each of the
\* five parts differs between the two policies.
C11_Witness ==
    /\ Analyzed
    /\ exercise_name = "SQUATS"
    /\ AllSquatParts
    /\ calculate_squat_score(pose_data.metrics)
         \cap calculate_generic_score(pose_data.metrics) = {}
    /\ result.issues # identify_generic_issues(pose_data.metrics, result.total_frames)
    /\ result.metrics # generate_generic_metrics(pose_data.metrics)
    /\ result.strengths # generate_generic_strengths(pose_data.metrics, result.issues)
    /\ \A s \in calculate_generic_score(pose_data.metrics) :
         result.recommendations #
           generate_generic_recommendations(
             identify_generic_issues(pose_data.metrics, result.total_frames), s)

\* A valid angle vector: every component within [0, 180] and none NaN.
ValidAngleVector(angles) ==
    \A i \in 1..Len(angles) :
        angles[i] # NaN /\ angles[i] >= 0 /\ angles[i] <= LiveDeg(STRAIGHT)

\* A frame of the live loop has been processed.
LiveFrameDone == live.pc \in { "loop", "returned" } /\ live.feedback # << >>

\* C12, as claimed: extract_angle_vector returns None when the landmark set
\* is None, when a required index does not resolve, or when a computed angle
\* is outside [0, 180] or NaN, so that every vector it returns has four
\* components within [0, 180] and none NaN.
C12_AsClaimed ==
    \A landmarks \in { live.frame, [ live.frame EXCEPT !.given = FALSE ] } :
      LET angles == extract_angle_vector(landmarks)
          computed ==
            { angle(landmarks, 12, 24, 26, landmarks.hip),
              angle(landmarks, 24, 26, 28, landmarks.knee),
              angle(landmarks, 26, 28, 30, landmarks.ankle) }
      IN  LiveFrameDone /\ live.frame.body =>
            /\ ~ landmarks.given => angles = None
            /\ ~ (RequiredLandmarks \subseteq landmarks.resolved) => angles = None
            /\ (\E a \in computed : a = NaN \/ a < 0 \/ a > LiveDeg(STRAIGHT))
                  => angles = None
            /\ angles # None => Len(angles) = 4 /\ ValidAngleVector(angles)

\* C13, as claimed: after any sequence of frames the smoothed state of the
\* live loop is absent or a vector with every component within [0, 180] and
\* none NaN.
C13_AsClaimed ==
    live.smoothed = None \/ ValidAngleVector(live.smoothed)

\* A step of the live loop that processes a frame (the other steps out of
\* the loop are a failed read and a runtime error).
LiveFrameStep == live.pc = "loop" /\ live'.exit \in { "", "stop" }

\* No body is detected in the frame, or an index of it does not resolve.
NoVector(frame) ==
    ~ frame.body \/ ~ (RequiredLandmarks \subseteq frame.resolved)

\* C14: on a frame in which no body is detected or for which the extractor
\* returns None, the live loop shows "NO BODY DETECTED" with score 0, does
\* not smooth or score, emits no audio, leaves the smoothed state and the
\* last notified feedback as they were, and goes on with the next frame
\* (unless the stop key ends it).
C14_NoBodyFrame ==
    [][ (LiveFrameStep /\ NoVector(live'.frame)) =>
          /\ live'.feedback = << "NO BODY DETECTED" >>
          /\ live'.score = 0
          /\ live'.blends = live.blends
          /\ live'.smoothed = live.smoothed
          /\ live'.last_feedback = live.last_feedback
          /\ live'.spoken = << >> /\ ~ live'.speak_failed
          /\ (live'.pc = "loop" \/ live'.exit = "stop") ]_vars

\* C14, its case: a frame without the foot landmark, after a frame that was
\* scored and spoken, while the stream goes on.
C14_Witness ==
    /\ live.pc = "loop"
    /\ live.frame.body /\ NoVector(live.frame)
    /\ live.smoothed # None /\ live.last_feedback # << >>
    /\ live.feedback_cooldown > 0
    /\ live.feedback = << "NO BODY DETECTED" >>

\* The angle vectors of the poses of the model.
PoseVectors == { extract_angle_vector(landmarks) : landmarks \in LivePoses }

\* The smoothing factors of C15 other than 0 and 1, as numerators over
\* ALPHA_DEN.
BetweenZeroAndOne == 1..(ALPHA_DEN - 1)

LiveFrameScored == LiveFrameDone /\ ~ NoVector(live.frame)

\* C17: the feedback tier of a scored frame of the live loop depends on its
\* score alone, with inclusive lower bounds: excellent from 90, good from 75
\* and below 90, okay from 60 and below 75, fix form below 60; a scored
\* frame has exactly one tier.
C17_Tier ==
    LiveFrameScored =>
      LET tier == live.feedback[1]
          score == live.score
      IN  /\ tier \in { "EXCELLENT FORM", "GOOD FORM", "OKAY FORM", "FIX FORM" }
          /\ tier = "EXCELLENT FORM" <=> score >= 90 * PerCent
          /\ tier = "GOOD FORM" <=> (75 * PerCent <= score /\ score < 90 * PerCent)
          /\ tier = "OKAY FORM" <=> (60 * PerCent <= score /\ score < 75 * PerCent)
          /\ tier = "FIX FORM" <=> score < 60 * PerCent

\* C17, its case: a first frame scored exactly 75, the lowest good score.
C17_Witness ==
    /\ LiveFrameScored
    /\ live.blends = 1
    /\ live.score = 75 * PerCent
    /\ live.feedback[1] = "GOOD FORM"

\* speak was called in the iteration that led to the state.
SpeakCalled(l) == l.spoken # << >> \/ l.speak_failed

\* C18, as claimed: with speech on and valid angles, the cooldown suppresses
\* repeated identical notifications only.  While the countdown of 30 ticks runs, a
\* scored frame with the feedback string last notified emits no audio; a
\* scored frame with another feedback string is notified at once, countdown
\* or not; and the same feedback string is notified again once the
\* countdown has expired.
C18_AsClaimed ==
    [][ (/\ LiveFrameStep /\ live.speak_on
         /\ ~ NoVector(live'.frame) /\ ValidAngleVector(live'.smoothed)) =>
          /\ (live'.feedback = live.last_feedback /\ live.feedback_cooldown > 0)
                => ~ SpeakCalled(live')
          /\ live'.feedback # live.last_feedback => SpeakCalled(live')
          /\ (live'.feedback = live.last_feedback /\ live.feedback_cooldown = 0)
                => SpeakCalled(live') ]_vars

\* C19: a failure of the audio sink is not fatal to the live loop.  When
\* speak fails on a frame, the loop does not end (unless the stop key ends
\* it), no error ends it, and the frame is dealt with as usual: it is
\* scored, its feedback becomes the last notified one and the cooldown
\* starts, so that the next frame is read.
C19_SpeakFailure ==
    [][ (LiveFrameStep /\ live'.speak_failed) =>
          /\ live'.pc = "loop" \/ live'.exit = "stop"
          /\ live'.exit # "error"
          /\ live'.score = analyze_pose(live'.smoothed).score
          /\ live'.last_feedback = live'.feedback
          /\ live'.feedback_cooldown = FEEDBACK_COOLDOWN - 1 ]_vars

\* C19, its case: speak has failed on a frame below the excellent score,
\* and the loop is ready for the next frame.
C19_Witness ==
    /\ live.pc = "loop" /\ live.cap_open
    /\ live.speak_failed
    /\ live.score < 90 * PerCent
    /\ live.blends < MaxSmoothed

\* C20, as claimed: the live loop ends on the stop key, on a failed read of
\* the capture or on a runtime error, and whenever run_live_match has
\* returned from its loop both the capture and the pose model have been
\* released.
C20_AsClaimed ==
    live.pc = "returned" =>
      /\ live.exit \in { "stop", "capture", "error" }
      /\ ~ live.cap_open
      /\ ~ live.pose_open

\* ---------------------------------------------------------------- C16
\* One reading is below another: by the float32 values, then by the offsets.
ReadingBelow(r, q) == r.f32 < q.f32 \/ (r.f32 = q.f32 /\ r.off < q.off)

\* The readings of one angle over the frames the extraction has kept.
ReadingsOf(name) == [ i \in 1..Len(frames) |-> frames[i].angles[name] ]

\* The extraction has returned the metrics of a non-empty series.
Aggregated == pc # "reading" /\ frames # << >> /\ pose_data.status = "success"

\* The metric keys of an angle name: f"{k}_min", f"{k}_avg", f"{k}_max".
KeysOf(name) ==
    CASE name = "left_knee"
           -> [ min |-> "left_knee_min", avg |-> "left_knee_avg", max |-> "left_knee_max" ]
      [] name = "right_knee"
           -> [ min |-> "right_knee_min", avg |-> "right_knee_avg", max |-> "right_knee_max" ]
      [] name = "left_hip"
           -> [ min |-> "left_hip_min", avg |-> "left_hip_avg", max |-> "left_hip_max" ]
      [] OTHER
           -> [ min |-> "right_hip_min", avg |-> "right_hip_avg", max |-> "right_hip_max" ]

\* C16: for every non-empty sequence of angle readings, _aggregate_metrics
\* returns, per angle name, the minimum, the maximum and the arithmetic mean
\* of the readings, with min <= avg <= max, and a count equal to the length
\* of the sequence; for one vector v repeated, min = max = avg = v.
C16_AsClaimed ==
    Aggregated =>
      /\ pose_data.metrics["count"] = Len(frames)
      /\ \A name \in AngleNames :
           LET readings == ReadingsOf(name)
               n == Len(readings)
               min == pose_data.metrics[KeysOf(name).min]
               avg == pose_data.metrics[KeysOf(name).avg]
               max == pose_data.metrics[KeysOf(name).max]
           IN  /\ \E i \in 1..n : readings[i] = Reading(min, 0)
               /\ \A i \in 1..n : ~ReadingBelow(readings[i], Reading(min, 0))
               /\ \E i \in 1..n : readings[i] = Reading(max, 0)
               /\ \A i \in 1..n : ~ReadingBelow(Reading(max, 0), readings[i])
               /\ n * avg = SumSeq([ i \in 1..n |-> readings[i].f32 ])
               /\ SumSeq([ i \in 1..n |-> readings[i].off ]) = 0
               /\ min <= avg /\ avg <= max
               /\ (\A i \in 1..n : readings[i] = readings[1])
                     => /\ Reading(min, 0) = readings[1]
                        /\ Reading(avg, 0) = readings[1]
                        /\ Reading(max, 0) = readings[1]

\* ---------------------------------------------------------------- C21
\* The metric keys a policy's scorer reads.
ScoredKeys(squat) ==
    IF squat
    THEN { "left_knee_min", "right_knee_min", "left_knee_avg", "right_knee_avg",
           "left_hip_avg", "right_hip_avg" }
    ELSE { "left_knee_avg", "right_knee_avg", "left_hip_avg", "right_hip_avg",
           "left_knee_max", "left_knee_min", "left_hip_max", "right_hip_max",
           "left_hip_min", "right_hip_min" }

\* C21: analyze_workout_form returns the error dictionary {status: 'error',
\* error_type, message}, with no overall_score and no issues, whenever the
\* pose data status is not 'success' or the metrics are empty, and it
\* returns 'success' with a score only when every metric it scores was
\* present in the input (no missing metric is replaced by a default).
C21_AsClaimed ==
    pc = "analyzed" =>
      /\ (pose_data.status # "success" \/ IsEmptyMetrics(pose_data.metrics))
           => /\ result.status = "error"
              /\ result.keys = { "status", "error_type", "message" }
              /\ result.overall_score = Missing
              /\ result.issues = << >>
      /\ result.status = "success"
           => \A k \in ScoredKeys(UsesSquatPolicy) : pose_data.metrics[k] # Missing

\* ---------------------------------------------------------------- C26
\* C26: under the squat policy and under the generic policy, for every
\* metrics input, the score is below 10.0 if and only if the issue list is
\* not empty.
C26_AsClaimed ==
    /\ HasPoseData =>
         /\ \A s \in calculate_squat_score(pose_data.metrics) :
              s < PERFECT_SCORE * 10
                <=> identify_squat_issues(pose_data.metrics, TotalFramesOf(pose_data)) # << >>
         /\ \A s \in calculate_generic_score(pose_data.metrics) :
              s < PERFECT_SCORE * 10
                <=> identify_generic_issues(pose_data.metrics, TotalFramesOf(pose_data)) # << >>
    /\ Analyzed => (result.overall_score < PERFECT_SCORE * 10 <=> result.issues # << >>)

\* ---------------------------------------------------------------- C27
\* The lowest score of the squat policy, 10 - (3.0 + 2.0 + 2.0), and of the
\* generic policy, 10 - (2.5 + 2.0 + 1.5 + 1.5), in tenths.
SquatScoreMin ==
    PERFECT_SCORE * 10
    - (DEPTH_PENALTY_MAX + ASYMMETRY_PENALTY_MAX + FORWARD_LEAN_PENALTY_MAX)

GenericScoreMin == PERFECT_SCORE * 10 - (25 + 20 + 15 + 15)

\* C27: for every metrics input the penalties of the squat policy sum to at
\* most 7.0 and those of the generic policy to at most 7.5, so the squat
\* score is at least 3.0, the generic score at least 2.5, and the floor at
\* 0 is never the value returned.
C27_PenaltySumCapped ==
    /\ (pc = "extracted" /\ HasPoseData) =>
         /\ SumSeq(SquatPenalties(pose_data.metrics))
              <= Tenths(PERFECT_SCORE * 10 - SquatScoreMin)
         /\ SumSeq(GenericPenalties(pose_data.metrics))
              <= Tenths(PERFECT_SCORE * 10 - GenericScoreMin)
         /\ \A s \in calculate_squat_score(pose_data.metrics) : s >= SquatScoreMin
         /\ \A s \in calculate_generic_score(pose_data.metrics) : s >= GenericScoreMin
         /\ PERFECT_SCORE * Point - SumSeq(SquatPenalties(pose_data.metrics)) > 0
         /\ PERFECT_SCORE * Point - SumSeq(GenericPenalties(pose_data.metrics)) > 0
    /\ Analyzed =>
         result.overall_score >= (IF UsesSquatPolicy THEN SquatScoreMin ELSE GenericScoreMin)

\* C27, its case: an analysis under each policy of metrics with every
\* penalty at its cap, scored 3.0 or 2.5.
C27_Witness ==
    /\ Analyzed
    /\ pose_data.metrics = MetricsOf(Worst)
    /\ Len(SquatPenalties(pose_data.metrics)) = 3
    /\ Len(GenericPenalties(pose_data.metrics)) = 4
    /\ calculate_squat_score(pose_data.metrics) = { SquatScoreMin }
    /\ calculate_generic_score(pose_data.metrics) = { GenericScoreMin }
    /\ result.overall_score = (IF UsesSquatPolicy THEN SquatScoreMin ELSE GenericScoreMin)

\* ---------------------------------------------------------------- C28
\* C28: in every angle vector extract_angle_vector returns, and in every
\* smoothed vector, the hip component equals the back component; analyze_pose
\* of such a vector reports at least one fault, never returns the feedback
\* 'Good form' and never a score of 100, and its score stays in [0, 100].
C28_AsClaimed ==
    LiveFrameScored =>
      \A angles \in { extract_angle_vector(live.frame), live.smoothed } :
         /\ angles[1] = angles[3] /\ angles[1] # NaN
         /\ analyze_pose(angles).feedback # << "Good form" >>
         /\ analyze_pose(angles).score < Points(100)
         /\ analyze_pose(angles).score >= 0

\* ---------------------------------------------------------------- C29
\* C29: in the live loop with audio enabled, two consecutive calls of speak
\* are at least 30 iterations apart and are made for different feedback
\* strings: after a call on frame i there is none on the frames i+1 .. i+29,
\* whatever they show, and no call is made for the feedback string of the
\* call before it.
C29_Spacing ==
    [][ (LiveFrameStep /\ live.speak_on /\ SpeakCalled(live')) =>
          /\ live.since >= FEEDBACK_COOLDOWN
          /\ live'.feedback # live.announced
          /\ live'.feedback # live.last_feedback ]_vars

\* C29, its case: a second call of speak (the first scored frame of a
\* stream with audio is always announced).
C29_Witness ==
    /\ live.pc = "loop" /\ live.speak_on
    /\ SpeakCalled(live)
    /\ live.blends >= 2
    /\ live.announced = live.feedback

\* ---------------------------------------------------------------- C30
\* C30: in the live loop with audio, once every frame is valid and produces
\* the same feedback string f, an f that differs from the feedback last
\* announced is announced within at most 30 frames: a frame passes without
\* the call of speak only if the call before is fewer than 30 frames back,
\* and each such frame is one frame further from it.  After the call for f
\* no audio is emitted while the feedback stays f.
C30_Announced ==
    [][ /\ pc = "steady" => live'.feedback = live.feedback
        /\ (pc' = "steady" /\ live'.feedback # live.announced /\ ~ SpeakCalled(live'))
             => /\ live.since < FEEDBACK_COOLDOWN
                /\ live'.since = live.since + 1
        /\ (pc' = "steady" /\ live'.feedback # live.announced /\ SpeakCalled(live'))
             => live'.announced = live'.feedback
        /\ (pc' = "steady" /\ live'.feedback = live.announced)
             => ~ SpeakCalled(live') ]_vars

\* C30, its case: a changed feedback that has waited for the whole cooldown
\* of an earlier announcement; the next frame announces it.
C30_Witness ==
    /\ pc = "steady"
    /\ live.announced # << >>
    /\ live.feedback # live.announced
    /\ live.since = FEEDBACK_COOLDOWN

\* ---------------------------------------------------------------------
\* The tools upload_video and save_analysis_results called on their own,
\* with whatever arguments the agent passes.
\* ---------------------------------------------------------------------

Videos ==
    { Video(FALSE, ".mp4", 0), Video(TRUE, ".txt", 2048), Video(TRUE, ".mp4", 0),
      Video(TRUE, ".mov", 1023), Video(TRUE, ".avi", 1024), Video(TRUE, ".webm", MAX_VIDEO_SIZE_BYTES),
      Video(TRUE, ".mp4", MAX_VIDEO_SIZE_BYTES + 1) }

CopyEndings == { "ok", "unopened", "partial" }

UploadVideo(video, user_id, copy, fails_at, remove_ok) ==
    /\ pc \in { "start", "tools" }
    /\ db.issued < MaxSessions
    /\ pc' = "tools"
    /\ db' = upload_video(db, video, exercise_name, user_id, copy, fails_at, remove_ok)
    /\ UNCHANGED << exercise_name, frame_interval, idx, frames, pose_data, result, live >>

SaveAnalysisResults(session_id, complete, fails_at, mark_fails_at) ==
    /\ pc \in { "start", "tools" }
    /\ pc' = "tools"
    /\ db' = save_analysis_results(db, session_id, complete, fails_at, mark_fails_at)
    /\ UNCHANGED << exercise_name, frame_interval, idx, frames, pose_data, result, live >>

\* The ways a call can go: an ending is chosen only for a step the call
\* reaches.
UploadStep ==
    \E video \in Videos, user_id \in UserIds :
      \E copy \in (IF UploadValidation(video) = "" THEN CopyEndings ELSE { "ok" }) :
        \E fails_at \in (IF UploadValidation(video) = "" /\ copy = "ok" THEN 0..3 ELSE { 0 }) :
          \E remove_ok \in (IF fails_at # 0 THEN BOOLEAN ELSE { TRUE }) :
            UploadVideo(video, user_id, copy, fails_at, remove_ok)

SaveStep ==
    \E session_id \in SessionIds, complete \in BOOLEAN :
      \E fails_at \in (IF complete THEN 0..(Len(ResultTables) + 2) ELSE { 0 }) :
        \E mark_fails_at \in (IF complete /\ fails_at = 0 THEN { 0 } ELSE 0..2) :
          SaveAnalysisResults(session_id, complete, fails_at, mark_fails_at)

ToolNext ==
    \/ UploadStep
    \/ SaveStep

ToolSpec == Init /\ [][ToolNext]_vars

\* ---------------------------------------------------------------------
\* The /api/analyze endpoint (api_server.py lines 240-466).  A request runs
\* without interruption up to its first await, the tools the agent calls run
\* one at a time, and the request runs without interruption from the end of
\* the agent's run to its response.
\* ---------------------------------------------------------------------

Response(request, status_code, session_id) ==
    [ request EXCEPT !.pc = "done", !.status_code = status_code, !.session_id = session_id ]

\* Lines 240-309: validation, then the upload is written to
\* temp_<session_id><ext>.  upload is "rejected" (400 or 413), "unopened"
\* (open raises), "partial" (copyfileobj or stat raises) or "ok".
AnalyzeReceive(r, user_id, upload) ==
    /\ pc \in { "start", "api" }
    /\ db.requests[r].pc = "idle"
    /\ pc' = "api"
    /\ db' = [ db EXCEPT
         !.temps = IF upload \in { "partial", "ok" } THEN @ \cup { r } ELSE @,
         !.requests[r] =
            CASE upload = "rejected" -> Response([ @ EXCEPT !.user_id = user_id ], 400, NoSession)
              [] upload = "ok" -> [ @ EXCEPT !.pc = "agent", !.user_id = user_id ]
              [] OTHER -> Response([ @ EXCEPT !.user_id = user_id ], 500, NoSession) ]
    /\ UNCHANGED << exercise_name, frame_interval, idx, frames, pose_data, result, live >>

\* The agent calls upload_video on the temporary file (lines 324, 351-357);
\* tracked is whether the event of the tool result carries tool_name and
\* tool_result.  The tool's return goes to the agent and the endpoint.
AgentUploads(r, tracked, copy, fails_at, remove_ok) ==
    /\ pc = "api"
    /\ db.requests[r].pc = "agent"
    /\ db.requests[r].own = NoSession
    /\ db.issued < MaxSessions
    /\ LET called == upload_video(db, Video(TRUE, ".mp4", MIN_VIDEO_SIZE_BYTES), exercise_name,
                                  db.requests[r].user_id, copy, fails_at, remove_ok)
           session_id == called.returned.session_id
       IN  db' = [ called EXCEPT
                     !.returned = NoReturn,
                     !.requests[r].own = session_id,
                     !.requests[r].tracked_session_id = IF tracked THEN session_id ELSE NoSession ]
    /\ UNCHANGED << pc, exercise_name, frame_interval, idx, frames, pose_data, result, live >>

\* The agent calls save_analysis_results for the session of its upload.
AgentSaves(r, fails_at, mark_fails_at) ==
    /\ pc = "api"
    /\ db.requests[r].pc = "agent"
    /\ db.requests[r].own # NoSession
    /\ db' = [ save_analysis_results(db, db.requests[r].own, TRUE, fails_at, mark_fails_at)
                 EXCEPT !.returned = NoReturn ]
    /\ UNCHANGED << pc, exercise_name, frame_interval, idx, frames, pose_data, result, live >>

\* Lines 367-454: how the agent's run ends ("completed", "timeout",
\* "error"), the finally block, the choice of the session and the reading of
\* its results.
AnalyzeResponse(store, request, name, ending, db_ok) ==
    LET session_id == IF request.tracked_session_id # NoSession
                      THEN request.tracked_session_id
                      ELSE FallbackSession(store.tables, name, request.user_id)
    IN  CASE ending = "timeout" -> Response(request, 504, NoSession)
          [] ending = "error" -> Response(request, 500, NoSession)
          [] ~db_ok -> Response(request, 500, NoSession)
          [] session_id = NoSession -> Response(request, 500, NoSession)
          [] get_analysis_result_by_session(store.tables, session_id) = NoSession ->
               Response(request, 500, NoSession)
          [] OTHER -> Response(request, 200, session_id)

AnalyzeFinish(r, ending, unlink_ok, db_ok) ==
    /\ pc = "api"
    /\ db.requests[r].pc = "agent"
    /\ db' = [ db EXCEPT
         !.temps = IF unlink_ok THEN @ \ { r } ELSE @,
         !.requests[r] = AnalyzeResponse(db, @, exercise_name, ending, db_ok) ]
    /\ UNCHANGED << pc, exercise_name, frame_interval, idx, frames, pose_data, result, live >>

ApiNext ==
    \/ \E r \in Requests, user_id \in UserIds, upload \in { "rejected", "unopened", "partial", "ok" } :
         AnalyzeReceive(r, user_id, upload)
    \/ \E r \in Requests, tracked \in BOOLEAN, fails_at \in 0..1 :
         AgentUploads(r, tracked, "ok", fails_at, TRUE)
    \/ \E r \in Requests, fails_at \in 0..1, mark_fails_at \in 0..1 :
         AgentSaves(r, fails_at, mark_fails_at)
    \/ \E r \in Requests, ending \in { "completed", "timeout", "error" }, unlink_ok \in BOOLEAN, db_ok \in BOOLEAN :
         AnalyzeFinish(r, ending, unlink_ok, db_ok)

ApiSpec == Init /\ [][ApiNext]_vars

\* ---------------------------------------------------------------------
\* C22
\* ---------------------------------------------------------------------

Sessions(store) == store.tables.analysis_sessions

AllResultTables == { ResultTables[i] : i \in 1..Len(ResultTables) }

\* The step is a call of save_analysis_results (upload_video leaves its own
\* name in the return).
SaveReturns == pc' = "tools" /\ db'.returned.tool = "save_analysis_results"

\* A save_analysis_results call has just returned for this session.
Saved(store, session_id) ==
    /\ store.returned.tool = "save_analysis_results"
    /\ store.returned.session_id = session_id

\* C22 as stated: save_analysis_results is all-or-nothing: a successful call
\* leaves the result record with all its issues, metrics, strengths and
\* recommendations and the session status 'completed'; a call in which a
\* write fails persists none of them, returns status 'error' and leaves the
\* session marked 'failed'; every 'completed' session has a committed result
\* record; a call missing overall_score or total_frames writes no result
\* record.
C22_AsClaimed ==
    [][ SaveReturns =>
          \A id \in SessionIds :
            /\ Sessions(db')[id].status = "completed" => "analysis_results" \in db'.tables.written[id]
            /\ Saved(db', id) /\ db'.returned.status = "success" =>
                 /\ db'.tables.written[id] = AllResultTables
                 /\ Sessions(db)[id].status # "absent" => Sessions(db')[id].status = "completed"
            /\ Saved(db', id) /\ db'.returned.status = "error" =>
                 db'.tables.written = db.tables.written
            /\ Saved(db', id) /\ db'.returned.error_type = "database" =>
                 (Sessions(db)[id].status # "absent" => Sessions(db')[id].status = "failed")
      ]_vars

\* C22, amended: as above, except that after a failed call the session is
\* marked 'failed' only when the handler's own transaction commits; when that
\* transaction fails too the session keeps the status it had.  Nothing but
\* the status of the call's session changes in a failed call.
C22_AllOrNothing ==
    [][ SaveReturns =>
          \A id \in SessionIds :
            /\ Sessions(db')[id].status = "completed" => "analysis_results" \in db'.tables.written[id]
            /\ Saved(db', id) /\ db'.returned.status = "success" =>
                 /\ db'.tables.written[id] = AllResultTables
                 /\ Sessions(db)[id].status # "absent" => Sessions(db')[id].status = "completed"
            /\ Saved(db', id) /\ db'.returned.status = "error" =>
                 /\ db'.tables.written = db.tables.written
                 /\ Sessions(db')[id].status \in { Sessions(db)[id].status, "failed" }
                 /\ Sessions(db')[id].status = "failed" => Sessions(db)[id].status # "absent"
                 /\ \A other \in SessionIds \ { id } : Sessions(db')[other] = Sessions(db)[other]
      ]_vars

\* A failed save whose handler could not mark the session: the call returned
\* a database error, nothing was written and the session is still
\* 'processing'.
C22_Witness ==
    \E id \in SessionIds :
        /\ Saved(db, id)
        /\ db.returned.status = "error" /\ db.returned.error_type = "database"
        /\ Sessions(db)[id].status = "processing"
        /\ db.tables.written[id] = {}

\* ---------------------------------------------------------------------
\* C23
\* ---------------------------------------------------------------------

\* The step is a call of upload_video.
UploadReturns == pc' = "tools" /\ db'.returned.tool = "upload_video"

\* The files of the uploads directory that no session record refers to.
Orphans(store) == { id \in store.uploads : Sessions(store)[id].status = "absent" }

\* C23 as stated: upload_video leaves no orphan state: no call leaves a
\* copied file without a session record; a call that fails (validation, or
\* the database write after the copy) leaves neither a new file nor a new
\* session record; a successful call leaves the copied file and the session
\* record with status 'processing'.
C23_AsClaimed ==
    [][ UploadReturns =>
          /\ Orphans(db') = {}
          /\ db'.returned.status = "error" =>
               /\ db'.uploads = db.uploads
               /\ Sessions(db') = Sessions(db)
          /\ db'.returned.status = "success" =>
               /\ db'.returned.session_id \in db'.uploads \ db.uploads
               /\ Sessions(db)[db'.returned.session_id].status = "absent"
               /\ Sessions(db')[db'.returned.session_id].status = "processing"
      ]_vars

\* The part of C23 that holds: a failed call creates no session record, a
\* successful call leaves its file and its session 'processing', and a
\* session record always has its file.
C23_NoSessionWithoutFile ==
    [][ UploadReturns =>
          /\ \A id \in SessionIds : Sessions(db')[id].status # "absent" => id \in db'.uploads
          /\ db'.returned.status = "error" => Sessions(db') = Sessions(db)
          /\ db'.returned.status = "success" =>
               /\ db'.returned.session_id \in db'.uploads \ db.uploads
               /\ Sessions(db)[db'.returned.session_id].status = "absent"
               /\ Sessions(db')[db'.returned.session_id].status = "processing"
      ]_vars

\* ---------------------------------------------------------------------
\* C24
\* ---------------------------------------------------------------------

\* C24 as stated: when the response of an /api/analyze request is sent, its
\* temporary file temp_<session_id><ext> no longer exists.
C24_AsClaimed ==
    \A r \in Requests : db.requests[r].pc = "done" => r \notin db.temps

\* The part of C24 that holds: a request whose agent ran and whose unlink
\* did not raise leaves no temporary file; a file stays only after a failed
\* write of the upload (status 500) or a failed unlink.
C24_CleanedAfterAgent ==
    [][ \A r \in Requests :
          /\ (db.requests[r].pc = "agent" /\ AnalyzeFinish(r, "completed", TRUE, TRUE)) => r \notin db'.temps
          /\ (db.requests[r].pc = "agent" /\ AnalyzeFinish(r, "timeout", TRUE, TRUE)) => r \notin db'.temps
          /\ (db.requests[r].pc = "agent" /\ AnalyzeFinish(r, "error", TRUE, TRUE)) => r \notin db'.temps
      ]_vars

\* ---------------------------------------------------------------------
\* C25
\* ---------------------------------------------------------------------

\* C25 as stated: the response of a request whose upload_video call created
\* a session carries the results of that session, never those of another
\* request's session.
C25_AsClaimed ==
    \A r \in Requests :
        /\ db.requests[r].pc = "done" /\ db.requests[r].status_code = 200
        /\ db.requests[r].own # NoSession
        => db.requests[r].session_id = db.requests[r].own

\* The part of C25 that holds: a request whose session id was tracked from
\* the tool result answers with its own session.
C25_TrackedIsOwn ==
    \A r \in Requests :
        /\ db.requests[r].pc = "done" /\ db.requests[r].status_code = 200
        /\ db.requests[r].tracked_session_id # NoSession
        => db.requests[r].session_id = db.requests[r].own

====
